---------------------------- MODULE Spec2Model ----------------------------
(***************************************************************************)
(* Model of tensorflow/core/kernels/mkl/mkl_conv_ops.cc:                   *)
(*   - MklConvOp::Compute run by concurrent threads on one kernel          *)
(*     instance, with the filter reformat cache (IsFilterCacheEmpty,       *)
(*     CacheFilter, AllocatePersistentTensor, GetCachedFilter) and the     *)
(*     reader/writer lock mu_                       (specification Spec)   *)
(*   - MklConvFwdPrimitive::Setup / Execute      (specification SpecExec)  *)
(*   - the kernel constructors      (specifications SpecCtor, SpecFused)   *)
(***************************************************************************)
EXTENDS Integers, Sequences, FiniteSets, TLC

(***************************************************************************)
(* Bounds of the model.                                                    *)
(***************************************************************************)
\* number of worker threads that call Compute on the one kernel instance
NumThreads == 2
\* total number of Compute calls started by all threads together
MaxCalls == 2
\* number of distinct blocked weight layouts the backend may choose
MaxShape == 2
\* number of backend / allocator failures injected in one run
MaxFaults == 1

Threads == 1..NumThreads
NoThread == 0

\* A shape class of the runtime inputs. The operation descriptor of a call
\* (MklConvFwdParams) is a function of the input shapes, the kernel's static
\* attributes being fixed, so a shape class stands for a descriptor.
Shapes == 0..MaxShape

\* filter_md: the memory descriptor of the filter as TensorFlow stores it
\* (hwio / hwigo / dhwio).
FilterMd == 0

\* conv_fwd_pd->weights_desc(): the weight layout the backend picks for the
\* primitive built from descriptor s.  Shape class 0 is served with the
\* plain TensorFlow layout, the others with one blocked layout each.
WeightsDescOf(s) == s

\* how a PersistentTensor that was never allocated looks
EmptyTensor == [buf |-> 0, fmt |-> -1]
NoMd == -1

\* values of a Tfilter* data pointer
NullData == [kind |-> "null", id |-> 0, fmt |-> -1]
UserData == [kind |-> "user", id |-> 0, fmt |-> FilterMd]
OpMemData(call, f) == [kind |-> "op", id |-> call, fmt |-> f]
CachedData(buf) == [kind |-> "cached", id |-> buf, fmt |-> -1]
\* not a pointer: the call that should have returned one faulted
FaultData == [kind |-> "fault", id |-> 0, fmt |-> -1]

VARIABLES
  \* ---- MklConvOp instance and its concurrent Compute calls (Spec)
  pc,                           \* position of each thread in Compute
  loc,                          \* locals of each thread's current Compute call
  mu_,                          \* the kernel's reader/writer mutex
  cached_filter_data_ptensor_,  \* cached filter buffer
  cached_filter_md_ptensor_,    \* descriptor the cached buffer was made for
  is_filter_const_,             \* attribute of the kernel instance
  live_prims,                   \* MklConvFwdPrimitive objects not yet deleted
  built,                        \* history: descriptor of every primitive built
  ncalls,                       \* Compute calls started so far
  nfaults,                      \* failures injected so far
  conversions,                  \* history: reorders done inside CacheFilter
  crashed,                      \* the process died (CHECK failure / fault)
  \* ---- one MklConvFwdPrimitive and the buffers of its callers (SpecExec)
  context_,
  mem,
  exec_hist,
  \* ---- kernel construction (SpecCtor, SpecFused)
  attrs,
  kernel,
  \* ---- one Compute call of a kernel, step by step (SpecCall)
  cpc,                          \* position of the call
  inp,                          \* the runtime inputs of the call
  reports,                      \* errors reported to the context, in order
  outputs,                      \* elements of each output allocated so far
  events,                       \* history: what the call did, in order
  escaped,                      \* an exception left Compute
  \* ---- concurrent calls, unlocked members and primitive handles (SpecRace)
  rpc,                          \* position of each thread
  rloc,                         \* locals of each thread's call
  fuse_add_src_,                \* member written by AllocateOutputTensor
  fuse_add_dst_,                \* member written by AllocateOutputTensor
  pool,                         \* primitive factory: descriptor -> handle
  in_execute,                   \* handle -> threads between bind and reset
  rcalls,                       \* calls started
  race_fault,                   \* a racing access to a member faulted
  \* ---- the padding of one Compute call with explicit padding (SpecPad)
  ppc,                          \* position of the call
  pad_in,                       \* members and the padding input of the call
  pad_loc                       \* locals of Compute and PadWithConvFusion

cache_vars == <<pc, loc, mu_, cached_filter_data_ptensor_,
                cached_filter_md_ptensor_, is_filter_const_, live_prims,
                built, ncalls, nfaults, conversions, crashed>>
exec_vars == <<context_, mem, exec_hist>>
ctor_vars == <<attrs, kernel>>
call_vars == <<cpc, inp, reports, outputs, events, escaped>>
race_vars == <<rpc, rloc, fuse_add_src_, fuse_add_dst_, pool, in_execute,
               rcalls, race_fault>>
pad_vars == <<ppc, pad_in, pad_loc>>
vars == <<cache_vars, exec_vars, ctor_vars, call_vars, race_vars, pad_vars>>

\* values the variables of the other specifications rest at
Unused == "unused"
CacheIdle ==
  /\ pc = [t \in Threads |-> "idle"]
  /\ loc = [t \in Threads |-> Unused]
  /\ mu_ = Unused
  /\ cached_filter_data_ptensor_ = EmptyTensor
  /\ cached_filter_md_ptensor_ = NoMd
  /\ is_filter_const_ = FALSE
  /\ live_prims = {}
  /\ built = <<>>
  /\ ncalls = 0
  /\ nfaults = 0
  /\ conversions = 0
  /\ crashed = FALSE
ExecIdle ==
  /\ context_ = Unused
  /\ mem = Unused
  /\ exec_hist = Unused
CtorIdle ==
  /\ attrs = Unused
  /\ kernel = Unused
CallIdle ==
  /\ cpc = Unused
  /\ inp = Unused
  /\ reports = <<>>
  /\ outputs = <<>>
  /\ events = <<>>
  /\ escaped = FALSE
RaceIdle ==
  /\ rpc = Unused
  /\ rloc = Unused
  /\ fuse_add_src_ = Unused
  /\ fuse_add_dst_ = Unused
  /\ pool = Unused
  /\ in_execute = Unused
  /\ rcalls = 0
  /\ race_fault = FALSE
PadIdle ==
  /\ ppc = Unused
  /\ pad_in = Unused
  /\ pad_loc = Unused

(***************************************************************************)
(* Kernel construction: MklConvOp, MklFusedConvOp,                         *)
(* MklFusedDepthwiseConvOp and MklFusedMatMulOp constructors.              *)
(* An attribute the op definition declares is always present, so its       *)
(* GetAttr succeeds; the attributes the constructors probe with HasAttr    *)
(* may be absent.                                                          *)
(***************************************************************************)
\* number of entries of a strides / dilations list that differ from 1
MaxDeviations == 1
\* longest fused_ops list
MaxFusedOps == 3
\* largest num_args attribute
MaxNumArgs == 3

ListLens == 3..6
StrideVals == {1, 2}
DilationVals == {0, 1, 2}
DataFormats == {"NHWC", "NCHW", "NXYZ"}
FusedOpNames == {"BiasAdd", "Add", "Relu", "Relu6", "Elu", "LeakyRelu",
                 "Gelu", "Foo"}

ListsOver(vals, lens) == UNION {[1..n -> vals] : n \in lens}
Deviations(l) == Cardinality({i \in DOMAIN l : l[i] # 1})

\* FormatFromString for the formats of these kernels
FormatFromString(data_format) == data_format \in {"NHWC", "NCHW"}

\* GetTensorDim(list, data_format_, dim): the entry of a per-dimension
\* attribute list for dimension dim: 'N', 'C', 'H', 'W' or the spatial
\* dimension '0', '1', '2'.  A list of n entries has n - 2 spatial
\* dimensions, 'H' and 'W' being the last two of them.
SpatialOf(l, dim) ==
  CASE dim = "0" -> 0
    [] dim = "1" -> 1
    [] dim = "2" -> 2
    [] dim = "H" -> (Len(l) - 2) - 2
    [] dim = "W" -> (Len(l) - 2) - 1
GetTensorDimIndex(l, data_format_, dim) ==
  IF dim = "N" THEN 1
  ELSE IF dim = "C" THEN (IF data_format_ = "NHWC" THEN Len(l) ELSE 2)
  ELSE (IF data_format_ = "NHWC" THEN 2 + SpatialOf(l, dim)
        ELSE 3 + SpatialOf(l, dim))
GetTensorDim(l, data_format_, dim) == l[GetTensorDimIndex(l, data_format_, dim)]

\* the checks of the MklConvOp constructor on the dilations, which ends with
\* the check of the spatial dilations left out for 5-entry lists
ConvOpDilationError_NoSpatial3D(a) ==
  IF Len(a.strides) = 4
  THEN IF Len(a.dilations) # 4 THEN "InvalidArgument"
       ELSE IF ~(GetTensorDim(a.dilations, a.data_format, "N") = 1
                 /\ GetTensorDim(a.dilations, a.data_format, "C") = 1)
       THEN "InvalidArgument"
       ELSE IF ~(GetTensorDim(a.dilations, a.data_format, "H") > 0
                 /\ GetTensorDim(a.dilations, a.data_format, "W") > 0)
       THEN "InvalidArgument"
       ELSE "OK"
  ELSE IF Len(a.dilations) # 5 THEN "InvalidArgument"
       ELSE IF ~(GetTensorDim(a.dilations, a.data_format, "N") = 1
                 /\ GetTensorDim(a.dilations, a.data_format, "C") = 1)
       THEN "InvalidArgument"
       ELSE "OK"

\* MklConvOp constructor, the checks on the dilations (strides_.size() is
\* 4 or 5 here)
ConvOpDilationError(a) ==
  IF Len(a.strides) = 4
  THEN IF Len(a.dilations) # 4 THEN "InvalidArgument"
       ELSE IF ~(GetTensorDim(a.dilations, a.data_format, "N") = 1
                 /\ GetTensorDim(a.dilations, a.data_format, "C") = 1)
       THEN "InvalidArgument"
       ELSE IF ~(GetTensorDim(a.dilations, a.data_format, "H") > 0
                 /\ GetTensorDim(a.dilations, a.data_format, "W") > 0)
       THEN "InvalidArgument"
       ELSE "OK"
  ELSE IF Len(a.dilations) # 5 THEN "InvalidArgument"
       ELSE IF ~(GetTensorDim(a.dilations, a.data_format, "N") = 1
                 /\ GetTensorDim(a.dilations, a.data_format, "C") = 1)
       THEN "InvalidArgument"
       ELSE IF ~(GetTensorDim(a.dilations, a.data_format, "0") > 0
                 /\ GetTensorDim(a.dilations, a.data_format, "1") > 0
                 /\ GetTensorDim(a.dilations, a.data_format, "2") > 0)
       THEN "InvalidArgument"
       ELSE "OK"

\* MklConvOp constructor: the first failed OP_REQUIRES ends it with that
\* error; "OK" when all hold.
ConvOpError(a) ==
  IF a.has_padding_list /\ a.has_explicit_paddings THEN "InvalidArgument"
  ELSE IF ~FormatFromString(a.data_format) THEN "InvalidArgument"
  ELSE IF ~(Len(a.strides) = 4 \/ Len(a.strides) = 5) THEN "InvalidArgument"
  ELSE IF ~(GetTensorDim(a.strides, a.data_format, "N") = 1
            /\ GetTensorDim(a.strides, a.data_format, "C") = 1)
  THEN "Unimplemented"
  ELSE ConvOpDilationError(a)

\* the members of a kernel before the constructor body runs, for the
\* template arguments bias_enabled and pad_enabled
NewKernel(kind, bias_enabled, pad_enabled) ==
  [kind |-> kind, status |-> "OK", computed |-> FALSE, oob_read |-> FALSE,
   fuse_biasadd_ |-> bias_enabled, fuse_activation_ |-> FALSE,
   fuse_pad_ |-> pad_enabled, fuse_add_ |-> FALSE,
   activation_alg_ |-> "undef", alpha_or_upbound_ |-> 0]

\* the kernel the MklConvOp constructor leaves
MklConvOpCtor(a, kind, bias_enabled, pad_enabled) ==
  [NewKernel(kind, bias_enabled, pad_enabled) EXCEPT !.status = ConvOpError(a)]

\* OpKernelConstruction::SetStatus keeps the first error reported
UpdateStatus(status, err) == IF status = "OK" THEN err ELSE status

\* the activations MklFusedConvOp fuses, with the arguments it passes to
\* set_fuse_activation; alpha is in tenths, leakyrelu_alpha is an attribute
ConvActivations == {"Relu", "Relu6", "Elu", "LeakyRelu"}
ActivationAlg(name) ==
  CASE name = "Relu" -> "eltwise_relu"
    [] name = "Relu6" -> "eltwise_bounded_relu"
    [] name = "Elu" -> "eltwise_elu"
    [] name = "LeakyRelu" -> "eltwise_relu"
ActivationAlpha(name, a) ==
  CASE name = "Relu" -> 0
    [] name = "Relu6" -> 60
    [] name = "Elu" -> 10
    [] name = "LeakyRelu" -> a.leakyrelu_alpha

SetFuseActivation(k, name, a) ==
  [k EXCEPT !.fuse_activation_ = TRUE,
            !.activation_alg_ = ActivationAlg(name),
            !.alpha_or_upbound_ = ActivationAlpha(name, a)]
Require(k, cond, err) ==
  [k EXCEPT !.status = UpdateStatus(@, IF cond THEN "OK" ELSE err)]

\* MklFusedConvOp constructor body in which the branch of
\* {BiasAdd, Add, activation} forgets set_fuse_add
FusedConvBody_NoAdd(k, a) ==
  LET ops == a.fused_ops
      n == a.num_args
  IN IF ops = <<>> THEN Require(k, FALSE, "InvalidArgument")
     ELSE IF ops = <<"BiasAdd">>
     THEN Require([k EXCEPT !.fuse_biasadd_ = TRUE], n = 1, "InvalidArgument")
     ELSE IF Len(ops) = 1 /\ ops[1] \in ConvActivations
     THEN SetFuseActivation(k, ops[1], a)
     ELSE IF Len(ops) = 2 /\ ops[1] = "BiasAdd" /\ ops[2] \in ConvActivations
     THEN Require(SetFuseActivation([k EXCEPT !.fuse_biasadd_ = TRUE],
                                    ops[2], a),
                  n = 1, "InvalidArgument")
     ELSE IF ops = <<"BiasAdd", "Add">>
     THEN Require([k EXCEPT !.fuse_biasadd_ = TRUE, !.fuse_add_ = TRUE],
                  n = 2, "InvalidArgument")
     ELSE IF Len(ops) = 3 /\ ops[1] = "BiasAdd" /\ ops[2] = "Add"
             /\ ops[3] \in ConvActivations
     THEN Require(SetFuseActivation([k EXCEPT !.fuse_biasadd_ = TRUE],
                                    ops[3], a),
                  n = 2, "InvalidArgument")
     ELSE Require(k, FALSE, "Unimplemented")

\* MklFusedConvOp constructor body, run after the MklConvOp constructor
\* whatever that one reported (pad_enabled is false for the registered
\* kernel, so set_fuse_pad is not called)
FusedConvBody(k, a) ==
  LET ops == a.fused_ops
      n == a.num_args
  IN IF ops = <<>> THEN Require(k, FALSE, "InvalidArgument")
     ELSE IF ops = <<"BiasAdd">>
     THEN Require([k EXCEPT !.fuse_biasadd_ = TRUE], n = 1, "InvalidArgument")
     ELSE IF Len(ops) = 1 /\ ops[1] \in ConvActivations
     THEN SetFuseActivation(k, ops[1], a)
     ELSE IF Len(ops) = 2 /\ ops[1] = "BiasAdd" /\ ops[2] \in ConvActivations
     THEN Require(SetFuseActivation([k EXCEPT !.fuse_biasadd_ = TRUE],
                                    ops[2], a),
                  n = 1, "InvalidArgument")
     ELSE IF ops = <<"BiasAdd", "Add">>
     THEN Require([k EXCEPT !.fuse_biasadd_ = TRUE, !.fuse_add_ = TRUE],
                  n = 2, "InvalidArgument")
     ELSE IF Len(ops) = 3 /\ ops[1] = "BiasAdd" /\ ops[2] = "Add"
             /\ ops[3] \in ConvActivations
     THEN Require(SetFuseActivation([k EXCEPT !.fuse_biasadd_ = TRUE,
                                              !.fuse_add_ = TRUE],
                                    ops[3], a),
                  n = 2, "InvalidArgument")
     ELSE Require(k, FALSE, "Unimplemented")

MklFusedConvOpCtor(a) ==
  FusedConvBody(MklConvOpCtor(a, "FusedConv", FALSE, FALSE), a)

\* MklFusedDepthwiseConvOp constructor body (registered with bias_enabled
\* true and pad_enabled false): an unsupported list returns before the
\* check of num_args
DepthwiseActivations == {"Relu", "Relu6", "Elu"}
FusedDepthwiseBody(k, a) ==
  LET ops == a.fused_ops
  IN IF ops = <<>> THEN Require(k, FALSE, "InvalidArgument")
     ELSE IF ops = <<"BiasAdd">>
     THEN Require([k EXCEPT !.fuse_biasadd_ = TRUE],
                  a.num_args = 1, "InvalidArgument")
     ELSE IF Len(ops) = 2 /\ ops[1] = "BiasAdd"
             /\ ops[2] \in DepthwiseActivations
     THEN Require(SetFuseActivation([k EXCEPT !.fuse_biasadd_ = TRUE],
                                    ops[2], a),
                  a.num_args = 1, "InvalidArgument")
     ELSE Require(k, FALSE, "Unimplemented")

MklFusedDepthwiseConvOpCtor(a) ==
  FusedDepthwiseBody(MklConvOpCtor(a, "FusedDepthwise", TRUE, FALSE), a)

\* MklFusedMatMulOp constructor.  fused_ops_[0] of an empty list reads past
\* the vector (oob_read): the read may fault or yield a string that is not
\* "BiasAdd"; first_is_bias is what the comparison gave.
MklFusedMatMulOpCtor(a, first_is_bias) ==
  LET k0 == NewKernel("FusedMatMul", TRUE, FALSE)
      k1 == Require(k0, Len(a.fused_ops) <= 2, "InvalidArgument")
  IN IF k1.status # "OK" THEN k1
     ELSE LET k2 == [k1 EXCEPT !.oob_read = (a.fused_ops = <<>>)]
              k3 == Require(k2, first_is_bias, "InvalidArgument")
          IN IF k3.status # "OK" THEN k3
             ELSE Require(k3, a.transpose_a = FALSE, "InvalidArgument")

\* MklFusedMatMulGradOp constructor; first_is_grad is what the comparison
\* of fused_ops_[0] gave
MklFusedMatMulGradOpCtor(a, first_is_grad) ==
  LET k0 == NewKernel("FusedMatMulGrad", FALSE, FALSE)
      k1 == Require(k0, Len(a.fused_ops) = 1, "InvalidArgument")
  IN IF k1.status # "OK" THEN k1
     ELSE Require(k1, first_is_grad, "InvalidArgument")

\* the attributes of a kernel under construction
ValidAttrs2D ==
  [strides |-> <<1, 2, 2, 1>>, dilations |-> <<1, 1, 1, 1>>,
   data_format |-> "NHWC", has_padding_list |-> FALSE,
   has_explicit_paddings |-> TRUE, has_is_filter_const |-> TRUE,
   fused_ops |-> <<>>, num_args |-> 0, leakyrelu_alpha |-> 2,
   transpose_a |-> FALSE]
ConvAttrs ==
  {[ValidAttrs2D EXCEPT !.strides = st, !.dilations = di, !.data_format = df,
                        !.has_padding_list = pl, !.has_explicit_paddings = ep,
                        !.has_is_filter_const = fc] :
     st \in {l \in ListsOver(StrideVals, ListLens) :
               Deviations(l) <= MaxDeviations},
     di \in {l \in ListsOver(DilationVals, ListLens) :
               Deviations(l) <= MaxDeviations},
     df \in DataFormats, pl \in BOOLEAN, ep \in BOOLEAN, fc \in BOOLEAN}
BaseSamples ==
  {ValidAttrs2D,
   [ValidAttrs2D EXCEPT !.strides = <<1, 1, 2, 2, 2>>,
                        !.dilations = <<1, 1, 1, 2, 1>>,
                        !.data_format = "NCHW"],
   [ValidAttrs2D EXCEPT !.dilations = <<1, 0, 1, 1>>]}
FusedAttrs ==
  {[b EXCEPT !.fused_ops = ops, !.num_args = n, !.transpose_a = ta] :
     b \in BaseSamples,
     ops \in ListsOver(FusedOpNames, 0..MaxFusedOps),
     n \in 0..MaxNumArgs, ta \in BOOLEAN}

GradAttrs == {[b EXCEPT !.fused_ops = <<"BiasAddGrad">>] : b \in BaseSamples}

NoKernel == NewKernel("none", FALSE, FALSE)

\* kernel creation runs the constructor of a plain convolution kernel
\* (Conv2D / Conv3D, DepthwiseConv2dNative)
ConstructConvOp ==
  /\ kernel.kind = "none"
  /\ \E kind \in {"Conv", "DepthwiseConv"} :
       kernel' = MklConvOpCtor(attrs, kind, FALSE, FALSE)
  /\ UNCHANGED <<attrs, cache_vars, exec_vars, call_vars, race_vars, pad_vars>>

ConstructFusedConvOp ==
  /\ kernel.kind = "none"
  /\ kernel' = MklFusedConvOpCtor(attrs)
  /\ UNCHANGED <<attrs, cache_vars, exec_vars, call_vars, race_vars, pad_vars>>

ConstructFusedDepthwiseConvOp ==
  /\ kernel.kind = "none"
  /\ kernel' = MklFusedDepthwiseConvOpCtor(attrs)
  /\ UNCHANGED <<attrs, cache_vars, exec_vars, call_vars, race_vars, pad_vars>>

ConstructFusedMatMulOp ==
  /\ kernel.kind = "none"
  /\ \/ /\ attrs.fused_ops # <<>>
        /\ kernel' = MklFusedMatMulOpCtor(attrs, attrs.fused_ops[1] = "BiasAdd")
     \/ /\ attrs.fused_ops = <<>>
        /\ \/ kernel' = MklFusedMatMulOpCtor(attrs, FALSE)
           \/ kernel' = [MklFusedMatMulOpCtor(attrs, FALSE)
                           EXCEPT !.status = "Fault"]
  /\ UNCHANGED <<attrs, cache_vars, exec_vars, call_vars, race_vars, pad_vars>>

\* fused_ops_[0] is read only after the size of the list was found to be 1
ConstructFusedMatMulGradOp ==
  /\ kernel.kind = "none"
  /\ kernel' = MklFusedMatMulGradOpCtor(attrs,
                  attrs.fused_ops # <<>> /\ attrs.fused_ops[1] = "BiasAddGrad")
  /\ UNCHANGED <<attrs, cache_vars, exec_vars, call_vars, race_vars, pad_vars>>

\* the framework runs Compute only on a kernel whose construction reported
\* no error
KernelCompute ==
  /\ kernel.kind # "none"
  /\ kernel.status = "OK"
  /\ ~kernel.computed
  /\ kernel' = [kernel EXCEPT !.computed = TRUE]
  /\ UNCHANGED <<attrs, cache_vars, exec_vars, call_vars, race_vars, pad_vars>>

InitCtor ==
  /\ attrs \in ConvAttrs
  /\ kernel = NoKernel
  /\ CacheIdle
  /\ ExecIdle
  /\ CallIdle
  /\ RaceIdle
  /\ PadIdle
NextCtor == ConstructConvOp \/ KernelCompute
SpecCtor == InitCtor /\ [][NextCtor]_vars

InitFused ==
  /\ attrs \in FusedAttrs \cup GradAttrs
  /\ kernel = NoKernel
  /\ CacheIdle
  /\ ExecIdle
  /\ CallIdle
  /\ RaceIdle
  /\ PadIdle
NextFused ==
  \/ ConstructFusedConvOp
  \/ ConstructFusedDepthwiseConvOp
  \/ ConstructFusedMatMulOp
  \/ ConstructFusedMatMulGradOp
  \/ KernelCompute
SpecFused == InitFused /\ [][NextFused]_vars

(***************************************************************************)
(* Claims about kernel construction.                                       *)
(***************************************************************************)
Range(l) == {l[i] : i \in DOMAIN l}
AllActivations == ConvActivations \cup {"Gelu"}

\* the fusion sets the specification enumerates, as ordered fused_ops
\* lists, for a set of activation names
EnumeratedSets(acts) ==
  {<<>>, <<"BiasAdd">>, <<"BiasAdd", "Add">>}
    \cup {<<x>> : x \in acts}
    \cup {<<"BiasAdd", x>> : x \in acts}
    \cup {<<"BiasAdd", "Add", x>> : x \in acts}

\* the extra operands a fusion set implies: the bias and the residual
ImpliedArgs(ops) ==
  (IF "BiasAdd" \in Range(ops) THEN 1 ELSE 0)
    + (IF "Add" \in Range(ops) THEN 1 ELSE 0)

\* the kernel's fusion flags are exactly those of the fusion set
FlagsMatch(k, ops) ==
  /\ k.fuse_biasadd_ = ("BiasAdd" \in Range(ops))
  /\ k.fuse_add_ = ("Add" \in Range(ops))
  /\ k.fuse_activation_ = (Range(ops) \cap ConvActivations # {})

\* the fused convolution kernel was constructed from attributes the
\* MklConvOp constructor accepts, a fusion set of the enumeration and the
\* operand count that set implies
LegalFusedConv ==
  /\ kernel.kind = "FusedConv"
  /\ ConvOpError(attrs) = "OK"
  /\ attrs.fused_ops \in EnumeratedSets(ConvActivations)
  /\ attrs.num_args = ImpliedArgs(attrs.fused_ops)

\* C7, as claimed: every enumerated fusion set, the empty one included, is
\* accepted with exactly its flags switched on.
C7_EveryEnumeratedSetAccepted ==
  LegalFusedConv =>
    /\ kernel.status = "OK"
    /\ FlagsMatch(kernel, attrs.fused_ops)

\* C7, amended: every non-empty enumerated fusion set is accepted with
\* exactly its flags switched on.
C7_NonEmptySetAccepted ==
  (LegalFusedConv /\ attrs.fused_ops # <<>>) =>
    /\ kernel.status = "OK"
    /\ FlagsMatch(kernel, attrs.fused_ops)

\* a kernel built for bias, residual add and leaky relu
C7_Witness ==
  /\ LegalFusedConv
  /\ attrs.fused_ops = <<"BiasAdd", "Add", "LeakyRelu">>
  /\ kernel.status = "OK"
  /\ kernel.fuse_biasadd_ /\ kernel.fuse_add_ /\ kernel.fuse_activation_
  /\ kernel.alpha_or_upbound_ = attrs.leakyrelu_alpha

\* C8: construction of a fused kernel from a fused_ops list outside the
\* enumeration (whatever the activation) reports an error.
C8_UnlistedSetRejected ==
  ( /\ kernel.kind \in {"FusedConv", "FusedDepthwise", "FusedMatMul"}
    /\ attrs.fused_ops \notin EnumeratedSets(AllActivations) )
  => kernel.status # "OK"

\* C9: construction of a fused convolution kernel whose num_args is not
\* the operand count its fusion set implies reports an error.
C9_NumArgsMismatchRejected ==
  ( /\ kernel.kind \in {"FusedConv", "FusedDepthwise"}
    /\ attrs.fused_ops \in EnumeratedSets(ConvActivations)
    /\ attrs.num_args # ImpliedArgs(attrs.fused_ops) )
  => kernel.status # "OK"

\* C30: the constructors of the fused matmul kernel and of its gradient
\* kernel read fused_ops_[0] only of a non-empty list, and construction
\* with an empty list reports InvalidArgument
C30_FirstOpReadOnlyWhenPresent ==
  kernel.kind \in {"FusedMatMul", "FusedMatMulGrad"}
    => /\ ~kernel.oob_read
       /\ attrs.fused_ops = <<>> => kernel.status = "InvalidArgument"

\* the configurations C10 lists, read off the attributes: positions of the
\* batch and channel entries of a 4- or 5-entry list
ChannelPos(l, data_format) == IF data_format = "NHWC" THEN Len(l) ELSE 2
BatchOrChannelNot1(l, data_format) ==
  l[1] # 1 \/ l[ChannelPos(l, data_format)] # 1
SpatialNotPositive(l, data_format) ==
  \E i \in DOMAIN l : i \notin {1, ChannelPos(l, data_format)} /\ l[i] <= 0
BadConfig(a) ==
  \/ a.has_padding_list /\ a.has_explicit_paddings
  \/ a.data_format \notin {"NHWC", "NCHW"}
  \/ Len(a.strides) \notin {4, 5}
  \/ /\ a.data_format \in {"NHWC", "NCHW"}
     /\ Len(a.strides) \in {4, 5}
     /\ BatchOrChannelNot1(a.strides, a.data_format)
  \/ /\ a.data_format \in {"NHWC", "NCHW"}
     /\ Len(a.dilations) \in {4, 5}
     /\ \/ BatchOrChannelNot1(a.dilations, a.data_format)
        \/ SpatialNotPositive(a.dilations, a.data_format)

\* C10: a convolution kernel constructed from one of the listed bad
\* configurations has a failed status and Compute is never run on it.
C10_BadConfigRejected ==
  (kernel.kind \in {"Conv", "DepthwiseConv"} /\ BadConfig(attrs)) =>
    /\ kernel.status # "OK"
    /\ ~kernel.computed

\* a 3-D convolution kernel whose only flaw is a spatial dilation of 0 was
\* constructed and rejected
C10_Witness ==
  /\ kernel.kind = "Conv"
  /\ kernel.status = "InvalidArgument"
  /\ ~(attrs.has_padding_list /\ attrs.has_explicit_paddings)
  /\ attrs.data_format = "NCHW"
  /\ attrs.strides = <<1, 1, 1, 1, 1>>
  /\ attrs.dilations = <<1, 1, 1, 0, 1>>

(***************************************************************************)
(* MklConvFwdPrimitive: Setup and Execute of one primitive object, for a   *)
(* kernel whose construction succeeded.  Tensors are single elements and   *)
(* the backend's arithmetic is done on integers.                           *)
(***************************************************************************)
\* largest magnitude of a tensor element before the first execution
MaxVal == 1
\* longest run of Execute calls on the same buffers
MaxExecs == 2

Vals == (0 - MaxVal)..MaxVal
DummyData == "DummyData"
Buffers == {"src", "filter", "bias", "add", "dst"}

\* the kernels the framework runs Compute on
ExecKernels ==
  {k \in {MklFusedConvOpCtor(a) : a \in FusedAttrs}
           \cup {MklConvOpCtor(a, "Conv", FALSE, FALSE) : a \in BaseSamples} :
     k.status = "OK"}

\* ExtendConvFwdParams in which "sum" is pushed whatever fuse_add_ says
ExtendConvFwdParams_AlwaysSum(k) ==
  <<[name |-> "sum", alg |-> "undef", alpha |-> 0]>>
  \o (IF k.fuse_activation_
      THEN <<[name |-> "activation", alg |-> k.activation_alg_,
              alpha |-> k.alpha_or_upbound_]>>
      ELSE <<>>)

\* MklConvOp::ExtendConvFwdParams: post_op_params of the kernel
ExtendConvFwdParams(k) ==
  (IF k.fuse_add_
   THEN <<[name |-> "sum", alg |-> "undef", alpha |-> 0]>>
   ELSE <<>>)
  \o (IF k.fuse_activation_
      THEN <<[name |-> "activation", alg |-> k.activation_alg_,
              alpha |-> k.alpha_or_upbound_]>>
      ELSE <<>>)

\* ConvFwdContext(): nothing built yet
EmptyContext ==
  [conv_fwd |-> "nullptr", src_mem |-> "nullptr", filter_mem |-> "nullptr",
   bias_mem |-> "nullptr", dst_mem |-> "nullptr", post_ops |-> <<>>]

\* MklConvFwdPrimitive::Setup for the parameters Compute makes for kernel k:
\* bias_dims is non-empty exactly when fuse_biasadd_ is set
Setup(k) ==
  [conv_fwd |-> "built", src_mem |-> DummyData, filter_mem |-> DummyData,
   bias_mem |-> IF k.fuse_biasadd_ THEN DummyData ELSE "nullptr",
   dst_mem |-> DummyData, post_ops |-> ExtendConvFwdParams(k)]

\* MklConvOp::GetBiasHandle
GetBiasHandle(k) == IF k.fuse_biasadd_ THEN "bias" ELSE "nullptr"

\* Execute, first part: set_data_handle of the caller's buffers
BindHandles(c, src_data, filter_data, bias_data, dst_data) ==
  [c EXCEPT !.src_mem = src_data, !.filter_mem = filter_data,
            !.bias_mem = IF bias_data # "nullptr" THEN bias_data ELSE @,
            !.dst_mem = dst_data]

\* Execute, last part: set the data handles back
ResetHandles(c, bias_data) ==
  [c EXCEPT !.src_mem = DummyData, !.filter_mem = DummyData,
            !.bias_mem = IF bias_data # "nullptr" THEN DummyData ELSE @,
            !.dst_mem = DummyData]

\* an eltwise post-op of the backend; alpha is in tenths.  eltwise_relu is
\* the leaky relu of slope alpha, eltwise_bounded_relu clips at alpha,
\* eltwise_elu saturates at -alpha.
Eltwise(alg, alpha, x) ==
  CASE alg = "eltwise_relu" -> IF x > 0 THEN x ELSE (alpha * x) \div 10
    [] alg = "eltwise_bounded_relu" ->
         IF x < 0 THEN 0 ELSE IF x > alpha \div 10 THEN alpha \div 10 ELSE x
    [] alg = "eltwise_elu" ->
         IF x > 0 THEN x
         ELSE IF x < 0 - (alpha \div 10) THEN 0 - (alpha \div 10) ELSE x

RECURSIVE ApplyPostOps(_, _, _)
ApplyPostOps(post_ops, acc, dst_old) ==
  IF post_ops = <<>> THEN acc
  ELSE ApplyPostOps(Tail(post_ops),
                    IF Head(post_ops).name = "sum" THEN acc + dst_old
                    ELSE Eltwise(Head(post_ops).alg, Head(post_ops).alpha, acc),
                    dst_old)

\* what fwd_primitives.at(0).execute writes to the buffer bound to dst_mem:
\* the convolution of the bound src and filter, plus the bound bias when
\* the primitive has one, then the post-ops in order
ConvForward(c, m) ==
  ApplyPostOps(c.post_ops,
               m[c.src_mem] * m[c.filter_mem]
                 + (IF c.bias_mem # "nullptr" THEN m[c.bias_mem] ELSE 0),
               m[c.dst_mem])

\* new MklConvFwdPrimitive(convFwdDims)
NewPrimitive ==
  /\ context_.conv_fwd = "nullptr"
  /\ context_' = Setup(kernel)
  /\ UNCHANGED <<mem, exec_hist, cache_vars, ctor_vars, call_vars, race_vars, pad_vars>>

\* MklConvOp::AllocateOutputTensor: with fuse_add_ the output buffer is the
\* summand, forwarded or copied; otherwise it is newly allocated and holds
\* anything
AllocateOutputTensor ==
  /\ context_.conv_fwd = "built"
  /\ \E v \in Vals :
       mem' = [mem EXCEPT !["dst"] = IF kernel.fuse_add_ THEN mem["add"]
                                     ELSE v]
  /\ exec_hist' = <<>>
  /\ UNCHANGED <<context_, cache_vars, ctor_vars, call_vars, race_vars, pad_vars>>

\* Execute(src_data, filter_data, bias_data, dst_data) that returns
ExecuteReturns ==
  /\ context_.conv_fwd = "built"
  /\ Len(exec_hist) < MaxExecs
  /\ LET bias_data == GetBiasHandle(kernel)
         bound == BindHandles(context_, "src", "filter", bias_data, "dst")
         out == ConvForward(bound, mem)
     IN /\ mem' = [mem EXCEPT ![bound.dst_mem] = out]
        /\ context_' = ResetHandles(bound, bias_data)
        /\ exec_hist' = Append(exec_hist, [threw |-> FALSE, out |-> out])
  /\ UNCHANGED <<cache_vars, ctor_vars, call_vars, race_vars, pad_vars>>

\* Execute in which the backend's execute throws mkldnn::error: the
\* statements after the loop are not run
ExecuteThrows ==
  /\ context_.conv_fwd = "built"
  /\ Len(exec_hist) < MaxExecs
  /\ context_' = BindHandles(context_, "src", "filter",
                             GetBiasHandle(kernel), "dst")
  /\ exec_hist' = Append(exec_hist, [threw |-> TRUE, out |-> mem["dst"]])
  /\ UNCHANGED <<mem, cache_vars, ctor_vars, call_vars, race_vars, pad_vars>>

InitExec ==
  /\ kernel \in ExecKernels
  /\ attrs = Unused
  /\ context_ = EmptyContext
  /\ mem \in [Buffers -> Vals]
  /\ exec_hist = <<>>
  /\ CacheIdle
  /\ CallIdle
  /\ RaceIdle
  /\ PadIdle
NextExec ==
  \/ NewPrimitive
  \/ AllocateOutputTensor
  \/ ExecuteReturns
  \/ ExecuteThrows
SpecExec == InitExec /\ [][NextExec]_vars

(***************************************************************************)
(* Claims about Execute.                                                   *)
(***************************************************************************)
Executions == Len(exec_hist)

\* C5: after an Execute call, whether it returned or threw, the src,
\* filter and dst slots, and the bias slot of a primitive with a bias,
\* hold DummyData.
C5_SlotsResetAfterExecute ==
  (context_.conv_fwd = "built" /\ Executions > 0) =>
    /\ context_.src_mem = DummyData
    /\ context_.filter_mem = DummyData
    /\ context_.dst_mem = DummyData
    /\ context_.bias_mem \in {DummyData, "nullptr"}

SameOutputInARow ==
  \A i \in 1..(Executions - 1) :
    (~exec_hist[i].threw /\ ~exec_hist[i + 1].threw)
      => exec_hist[i].out = exec_hist[i + 1].out

\* C6, as claimed: two Execute calls in a row on the same buffers write
\* the same output, whatever the kernel's fusion configuration.
C6_SameOutputTwice ==
  context_.conv_fwd = "built" => SameOutputInARow

\* C6, amended: two Execute calls in a row on the same buffers write the
\* same output when the kernel does not fuse a residual add.
C6_SameOutputTwiceWithoutAdd ==
  (context_.conv_fwd = "built" /\ ~kernel.fuse_add_) => SameOutputInARow

\* a primitive with bias and activation was executed twice in a row and
\* wrote the same non-zero output
C6_Witness ==
  /\ context_.conv_fwd = "built"
  /\ kernel.fuse_biasadd_ /\ kernel.fuse_activation_ /\ ~kernel.fuse_add_
  /\ Executions = 2
  /\ ~exec_hist[1].threw /\ ~exec_hist[2].threw
  /\ exec_hist[1].out = exec_hist[2].out
  /\ exec_hist[1].out # 0
  /\ exec_hist[1].out # mem["add"]

(***************************************************************************)
(* MklConvOp: concurrent Compute calls and the filter cache.               *)
(***************************************************************************)
NoLocals == [s |-> 0, filter_data |-> NullData, conv_fwd |-> 0,
             status |-> "OK"]

\* tf_shared_lock lock(mu_) / mutex_lock lock(mu_)
CanLockShared == mu_.writer = NoThread
\* an exclusive lock that does not wait for the readers to leave
CanLockExclusive_IgnoreReaders == mu_.writer = NoThread
\* mutex_lock lock(mu_): no writer and no reader holds the lock
CanLockExclusive == mu_.writer = NoThread /\ mu_.readers = {}

\* the layout of the bytes a data pointer points at
DataFormat(d) ==
  IF d.kind = "cached" THEN cached_filter_data_ptensor_.fmt ELSE d.fmt

\* Compute that goes to the filter cache whether or not the filter is
\* declared constant
ComputeBegin_CacheAlways(t) ==
  /\ ~crashed
  /\ pc[t] = "idle"
  /\ ncalls < MaxCalls
  /\ \E s \in Shapes :
       \/ \* the backend accepts the descriptor: conv_fwd = new ...
          /\ ncalls' = ncalls + 1
          /\ built' = Append(built, s)
          /\ live_prims' = live_prims \cup {ncalls + 1}
          /\ loc' = [loc EXCEPT ![t] = [s |-> s,
                        filter_data |-> IF FilterMd # WeightsDescOf(s)
                                        THEN NullData ELSE UserData,
                        conv_fwd |-> ncalls + 1,
                        status |-> "OK"]]
          /\ pc' = [pc EXCEPT ![t] =
                      IF FilterMd # WeightsDescOf(s)
                      THEN "ie_lock"
                      ELSE "exec"]
          /\ UNCHANGED nfaults
       \/ \* the backend rejects it: the constructor throws mkldnn::error
          /\ nfaults < MaxFaults
          /\ nfaults' = nfaults + 1
          /\ ncalls' = ncalls + 1
          /\ loc' = [loc EXCEPT ![t] = [NoLocals EXCEPT !.s = s]]
          /\ pc' = [pc EXCEPT ![t] = "catch"]
          /\ UNCHANGED <<built, live_prims>>
  /\ UNCHANGED <<mu_, cached_filter_data_ptensor_, cached_filter_md_ptensor_,
                 is_filter_const_, conversions, crashed>>
  /\ UNCHANGED <<exec_vars, ctor_vars, call_vars, race_vars, pad_vars>>

\* Compute up to the decision whether the filter must be reordered: the
\* primitive is created with new, the output is allocated, and the layout of
\* the filter tensor is compared with the one the primitive expects.
ComputeBegin(t) ==
  /\ ~crashed
  /\ pc[t] = "idle"
  /\ ncalls < MaxCalls
  /\ \E s \in Shapes :
       \/ \* the backend accepts the descriptor: conv_fwd = new ...
          /\ ncalls' = ncalls + 1
          /\ built' = Append(built, s)
          /\ live_prims' = live_prims \cup {ncalls + 1}
          /\ loc' = [loc EXCEPT ![t] = [s |-> s,
                        filter_data |-> IF FilterMd # WeightsDescOf(s)
                                        THEN NullData ELSE UserData,
                        conv_fwd |-> ncalls + 1,
                        status |-> "OK"]]
          /\ pc' = [pc EXCEPT ![t] =
                      IF FilterMd # WeightsDescOf(s)
                      THEN IF is_filter_const_ THEN "ie_lock" ELSE "reorder"
                      ELSE "exec"]
          /\ UNCHANGED nfaults
       \/ \* the backend rejects it: the constructor throws mkldnn::error
          /\ nfaults < MaxFaults
          /\ nfaults' = nfaults + 1
          /\ ncalls' = ncalls + 1
          /\ loc' = [loc EXCEPT ![t] = [NoLocals EXCEPT !.s = s]]
          /\ pc' = [pc EXCEPT ![t] = "catch"]
          /\ UNCHANGED <<built, live_prims>>
  /\ UNCHANGED <<mu_, cached_filter_data_ptensor_, cached_filter_md_ptensor_,
                 is_filter_const_, conversions, crashed>>
  /\ UNCHANGED <<exec_vars, ctor_vars, call_vars, race_vars, pad_vars>>

\* IsFilterCacheEmpty: take the shared lock ...
IsFilterCacheEmptyLock(t) ==
  /\ ~crashed
  /\ pc[t] = "ie_lock"
  /\ CanLockShared
  /\ mu_' = [mu_ EXCEPT !.readers = @ \cup {t}]
  /\ pc' = [pc EXCEPT ![t] = "ie_read"]
  /\ UNCHANGED <<loc, cached_filter_data_ptensor_, cached_filter_md_ptensor_,
                 is_filter_const_, live_prims, built, ncalls, nfaults,
                 conversions, crashed>>
  /\ UNCHANGED <<exec_vars, ctor_vars, call_vars, race_vars, pad_vars>>

\* ... read NumElements() == 0 and release.  Compute calls CacheFilter when
\* the answer is true and GetCachedFilter in both cases.
IsFilterCacheEmptyRead(t) ==
  /\ ~crashed
  /\ pc[t] = "ie_read"
  /\ mu_' = [mu_ EXCEPT !.readers = @ \ {t}]
  /\ pc' = [pc EXCEPT ![t] = IF cached_filter_data_ptensor_.buf = 0
                             THEN "cf_lock" ELSE "gc_lock"]
  /\ UNCHANGED <<loc, cached_filter_data_ptensor_, cached_filter_md_ptensor_,
                 is_filter_const_, live_prims, built, ncalls, nfaults,
                 conversions, crashed>>
  /\ UNCHANGED <<exec_vars, ctor_vars, call_vars, race_vars, pad_vars>>

\* CacheFilter: mutex_lock lock(mu_)
CacheFilterLock(t) ==
  /\ ~crashed
  /\ pc[t] = "cf_lock"
  /\ CanLockExclusive
  /\ mu_' = [mu_ EXCEPT !.writer = t]
  /\ pc' = [pc EXCEPT ![t] = "cf_check"]
  /\ UNCHANGED <<loc, cached_filter_data_ptensor_, cached_filter_md_ptensor_,
                 is_filter_const_, live_prims, built, ncalls, nfaults,
                 conversions, crashed>>
  /\ UNCHANGED <<exec_vars, ctor_vars, call_vars, race_vars, pad_vars>>

\* CacheFilter without the second look at the cache under the exclusive lock
CacheFilterCheck_NoRecheck(t) ==
  /\ ~crashed
  /\ pc[t] = "cf_check"
  /\ pc' = [pc EXCEPT ![t] = "cf_reorder"]
  /\ UNCHANGED <<mu_, loc, cached_filter_data_ptensor_,
                 cached_filter_md_ptensor_, is_filter_const_, live_prims,
                 built, ncalls, nfaults, conversions, crashed>>
  /\ UNCHANGED <<exec_vars, ctor_vars, call_vars, race_vars, pad_vars>>

\* CacheFilter: if the filter is already cached, there is nothing to do
CacheFilterCheck(t) ==
  /\ ~crashed
  /\ pc[t] = "cf_check"
  /\ IF cached_filter_data_ptensor_.buf > 0
     THEN /\ mu_' = [mu_ EXCEPT !.writer = NoThread]
          /\ pc' = [pc EXCEPT ![t] = "gc_lock"]
     ELSE /\ pc' = [pc EXCEPT ![t] = "cf_reorder"]
          /\ UNCHANGED mu_
  /\ UNCHANGED <<loc, cached_filter_data_ptensor_, cached_filter_md_ptensor_,
                 is_filter_const_, live_prims, built, ncalls, nfaults,
                 conversions, crashed>>
  /\ UNCHANGED <<exec_vars, ctor_vars, call_vars, race_vars, pad_vars>>

\* CacheFilter: filter.CheckReorderToOpMem(weights_desc) into the call's own
\* op memory; the reorder runs in the backend and may throw, which unwinds
\* CacheFilter (the lock is released) up to the catch in Compute.
CacheFilterReorder(t) ==
  /\ ~crashed
  /\ pc[t] = "cf_reorder"
  /\ \/ /\ conversions' = conversions + 1
        /\ loc' = [loc EXCEPT ![t].filter_data =
                     OpMemData(loc[t].conv_fwd, WeightsDescOf(loc[t].s))]
        /\ pc' = [pc EXCEPT ![t] = "cf_alloc_data"]
        /\ UNCHANGED <<mu_, nfaults>>
     \/ /\ nfaults < MaxFaults
        /\ nfaults' = nfaults + 1
        /\ mu_' = [mu_ EXCEPT !.writer = NoThread]
        /\ pc' = [pc EXCEPT ![t] = "catch"]
        /\ UNCHANGED <<loc, conversions>>
  /\ UNCHANGED <<cached_filter_data_ptensor_, cached_filter_md_ptensor_,
                 is_filter_const_, live_prims, built, ncalls, crashed>>
  /\ UNCHANGED <<exec_vars, ctor_vars, call_vars, race_vars, pad_vars>>

\* AllocatePersistentTensor, first half: allocate_persistent of the data
\* tensor.  When it fails OP_REQUIRES_OK returns with filter_tensor_ptr still
\* null, and CacheFilter goes on to GetTensorBuffer(nullptr) and memcpy.
AllocatePersistentData(t) ==
  /\ ~crashed
  /\ pc[t] = "cf_alloc_data"
  /\ \/ /\ cached_filter_data_ptensor_' = [buf |-> loc[t].conv_fwd, fmt |-> -1]
        /\ pc' = [pc EXCEPT ![t] = "cf_alloc_md"]
        /\ UNCHANGED <<nfaults, crashed, loc>>
     \/ /\ nfaults < MaxFaults
        /\ nfaults' = nfaults + 1
        /\ loc' = [loc EXCEPT ![t].status = "Failed"]
        /\ crashed' = TRUE
        /\ UNCHANGED <<pc, cached_filter_data_ptensor_>>
  /\ UNCHANGED <<mu_, cached_filter_md_ptensor_, is_filter_const_, live_prims,
                 built, ncalls, conversions>>
  /\ UNCHANGED <<exec_vars, ctor_vars, call_vars, race_vars, pad_vars>>

\* AllocatePersistentTensor, second half: allocate_persistent of the
\* descriptor tensor and the store of weights_desc into it.  When the
\* allocation fails OP_REQUIRES_OK returns before the store.
AllocatePersistentMd(t) ==
  /\ ~crashed
  /\ pc[t] = "cf_alloc_md"
  /\ \/ /\ cached_filter_md_ptensor_' = WeightsDescOf(loc[t].s)
        /\ UNCHANGED <<nfaults, loc>>
     \/ /\ nfaults < MaxFaults
        /\ nfaults' = nfaults + 1
        /\ loc' = [loc EXCEPT ![t].status = "Failed"]
        /\ UNCHANGED cached_filter_md_ptensor_
  /\ pc' = [pc EXCEPT ![t] = "cf_copy"]
  /\ UNCHANGED <<mu_, cached_filter_data_ptensor_, is_filter_const_,
                 live_prims, built, ncalls, conversions, crashed>>
  /\ UNCHANGED <<exec_vars, ctor_vars, call_vars, race_vars, pad_vars>>

\* CacheFilter: memcpy of the reordered filter into the persistent tensor,
\* then the end of the function releases the lock.
CacheFilterCopy(t) ==
  /\ ~crashed
  /\ pc[t] = "cf_copy"
  /\ cached_filter_data_ptensor_' =
       [cached_filter_data_ptensor_ EXCEPT !.fmt = loc[t].filter_data.fmt]
  /\ mu_' = [mu_ EXCEPT !.writer = NoThread]
  /\ pc' = [pc EXCEPT ![t] = "gc_lock"]
  /\ UNCHANGED <<loc, cached_filter_md_ptensor_, is_filter_const_, live_prims,
                 built, ncalls, nfaults, conversions, crashed>>
  /\ UNCHANGED <<exec_vars, ctor_vars, call_vars, race_vars, pad_vars>>

\* GetCachedFilter: tf_shared_lock lock(mu_)
GetCachedFilterLock(t) ==
  /\ ~crashed
  /\ pc[t] = "gc_lock"
  /\ CanLockShared
  /\ mu_' = [mu_ EXCEPT !.readers = @ \cup {t}]
  /\ pc' = [pc EXCEPT ![t] = "gc_read"]
  /\ UNCHANGED <<loc, cached_filter_data_ptensor_, cached_filter_md_ptensor_,
                 is_filter_const_, live_prims, built, ncalls, nfaults,
                 conversions, crashed>>
  /\ UNCHANGED <<exec_vars, ctor_vars, call_vars, race_vars, pad_vars>>

\* the pointer a GetCachedFilter call returns when the stored descriptor can
\* be read
CachedFilterFor(filter_md) ==
  IF filter_md = cached_filter_md_ptensor_
  THEN CachedData(cached_filter_data_ptensor_.buf)
  ELSE NullData

\* GetCachedFilter that hands out the cached buffer without comparing
CachedFilterOutcomes_NoCompare(filter_md) ==
  {CachedData(cached_filter_data_ptensor_.buf)}

\* The results GetCachedFilter can produce.  When the descriptor tensor was
\* never allocated its data() is null and the comparison dereferences a null
\* pointer: the call may fault, or the comparison may come out either way.
CachedFilterOutcomes(filter_md) ==
  IF cached_filter_md_ptensor_ # NoMd
  THEN {CachedFilterFor(filter_md)}
  ELSE {FaultData, NullData, CachedData(cached_filter_data_ptensor_.buf)}

\* GetCachedFilter: compare, return and release; Compute then either uses
\* the cached buffer or falls back to a reorder of its own.
GetCachedFilterRead(t) ==
  /\ ~crashed
  /\ pc[t] = "gc_read"
  /\ \E r \in CachedFilterOutcomes(WeightsDescOf(loc[t].s)) :
       IF r = FaultData
       THEN /\ crashed' = TRUE
            /\ UNCHANGED <<pc, loc, mu_>>
       ELSE /\ loc' = [loc EXCEPT ![t].filter_data = r]
            /\ mu_' = [mu_ EXCEPT !.readers = @ \ {t}]
            /\ pc' = [pc EXCEPT ![t] = IF r # NullData
                                       THEN "exec" ELSE "reorder"]
            /\ UNCHANGED crashed
  /\ UNCHANGED <<cached_filter_data_ptensor_, cached_filter_md_ptensor_,
                 is_filter_const_, live_prims, built, ncalls, nfaults,
                 conversions>>
  /\ UNCHANGED <<exec_vars, ctor_vars, call_vars, race_vars, pad_vars>>

\* Compute, !is_filter_cached: the call reorders the filter into its own op
\* memory; the reorder may throw.
FreshReorder(t) ==
  /\ ~crashed
  /\ pc[t] = "reorder"
  /\ \/ /\ loc' = [loc EXCEPT ![t].filter_data =
                     OpMemData(loc[t].conv_fwd, WeightsDescOf(loc[t].s))]
        /\ pc' = [pc EXCEPT ![t] = "exec"]
        /\ UNCHANGED nfaults
     \/ /\ nfaults < MaxFaults
        /\ nfaults' = nfaults + 1
        /\ pc' = [pc EXCEPT ![t] = "catch"]
        /\ UNCHANGED loc
  /\ UNCHANGED <<mu_, cached_filter_data_ptensor_, cached_filter_md_ptensor_,
                 is_filter_const_, live_prims, built, ncalls, conversions,
                 crashed>>
  /\ UNCHANGED <<exec_vars, ctor_vars, call_vars, race_vars, pad_vars>>

\* Compute: conv_fwd->Execute(...) and delete conv_fwd; a throwing Execute
\* leaves through the catch, past the delete.
ExecuteAndDelete(t) ==
  /\ ~crashed
  /\ pc[t] = "exec"
  /\ \/ /\ live_prims' = live_prims \ {loc[t].conv_fwd}
        /\ loc' = [loc EXCEPT ![t] = [NoLocals EXCEPT !.status = loc[t].status]]
        /\ pc' = [pc EXCEPT ![t] = "idle"]
        /\ UNCHANGED nfaults
     \/ /\ nfaults < MaxFaults
        /\ nfaults' = nfaults + 1
        /\ pc' = [pc EXCEPT ![t] = "catch"]
        /\ UNCHANGED <<live_prims, loc>>
  /\ UNCHANGED <<mu_, cached_filter_data_ptensor_,
                 cached_filter_md_ptensor_, is_filter_const_, built, ncalls,
                 conversions, crashed>>
  /\ UNCHANGED <<exec_vars, ctor_vars, call_vars, race_vars, pad_vars>>

\* Compute: catch (mkldnn::error& e) reports errors::Aborted and returns
CatchError(t) ==
  /\ ~crashed
  /\ pc[t] = "catch"
  /\ loc' = [loc EXCEPT ![t] = [NoLocals EXCEPT !.status =
               IF loc[t].status = "OK" THEN "Aborted" ELSE loc[t].status]]
  /\ pc' = [pc EXCEPT ![t] = "idle"]
  /\ UNCHANGED <<mu_, cached_filter_data_ptensor_, cached_filter_md_ptensor_,
                 is_filter_const_, live_prims, built, ncalls, nfaults,
                 conversions, crashed>>
  /\ UNCHANGED <<exec_vars, ctor_vars, call_vars, race_vars, pad_vars>>

Init ==
  /\ pc = [t \in Threads |-> "idle"]
  /\ loc = [t \in Threads |-> NoLocals]
  /\ mu_ = [writer |-> NoThread, readers |-> {}]
  /\ cached_filter_data_ptensor_ = EmptyTensor
  /\ cached_filter_md_ptensor_ = NoMd
  /\ is_filter_const_ \in BOOLEAN
  /\ live_prims = {}
  /\ built = <<>>
  /\ ncalls = 0
  /\ nfaults = 0
  /\ conversions = 0
  /\ crashed = FALSE
  /\ ExecIdle
  /\ CtorIdle
  /\ CallIdle
  /\ RaceIdle
  /\ PadIdle

Next ==
  \E t \in Threads :
    \/ ComputeBegin(t)
    \/ IsFilterCacheEmptyLock(t)
    \/ IsFilterCacheEmptyRead(t)
    \/ CacheFilterLock(t)
    \/ CacheFilterCheck(t)
    \/ CacheFilterReorder(t)
    \/ AllocatePersistentData(t)
    \/ AllocatePersistentMd(t)
    \/ CacheFilterCopy(t)
    \/ GetCachedFilterLock(t)
    \/ GetCachedFilterRead(t)
    \/ FreshReorder(t)
    \/ ExecuteAndDelete(t)
    \/ CatchError(t)

Spec == Init /\ [][Next]_vars

(***************************************************************************)
(* Claims about the filter cache and the primitives of Compute.            *)
(***************************************************************************)
\* the call of thread t is on the cached-filter path and GetCachedFilter
\* has returned to it
PastGetCachedFilter(t) ==
  /\ pc[t] \in {"reorder", "exec"}
  /\ is_filter_const_
  /\ FilterMd # WeightsDescOf(loc[t].s)

\* CacheFilter has returned from a conversion: the buffer holds the
\* reordered filter
Populated == cached_filter_data_ptensor_.fmt # -1

\* C1: however the threads interleave, the reorder inside CacheFilter runs
\* at most once on a kernel instance, it has run exactly once when a call
\* is back from GetCachedFilter, and every call that asked for the
\* descriptor the cache was made for holds the one cached buffer.
C1_OneConversion ==
  /\ conversions <= 1
  /\ \A t \in Threads :
       PastGetCachedFilter(t) =>
         /\ conversions = 1
         /\ cached_filter_md_ptensor_ = WeightsDescOf(loc[t].s) =>
              /\ cached_filter_data_ptensor_.buf # 0
              /\ loc[t].filter_data =
                   CachedData(cached_filter_data_ptensor_.buf)

\* every thread made its first Compute call, all with the same descriptor,
\* and each is about to execute with the cached buffer
C1_Witness ==
  /\ ncalls = NumThreads
  /\ conversions = 1
  /\ \A t \in Threads :
       /\ pc[t] = "exec"
       /\ loc[t].s = 1
       /\ loc[t].filter_data = CachedData(cached_filter_data_ptensor_.buf)
       /\ loc[t].filter_data.id # 0

\* C2: a call whose weights descriptor differs from the stored one gets
\* null from GetCachedFilter, never the cached buffer, and goes on with a
\* reorder of its own; what a call hands to Execute is laid out as its
\* primitive expects.
C2_NoStaleFilter ==
  \A t \in Threads :
    /\ ( /\ PastGetCachedFilter(t)
         /\ cached_filter_md_ptensor_ # NoMd
         /\ cached_filter_md_ptensor_ # WeightsDescOf(loc[t].s) )
       => loc[t].filter_data =
            IF pc[t] = "reorder" THEN NullData
            ELSE OpMemData(loc[t].conv_fwd, WeightsDescOf(loc[t].s))
    /\ ( /\ pc[t] = "exec"
         /\ loc[t].filter_data.kind = "cached" => cached_filter_md_ptensor_ # NoMd )
       => DataFormat(loc[t].filter_data) = WeightsDescOf(loc[t].s)

\* a call found the cache made for another descriptor and is about to
\* execute with its own reorder
C2_Witness ==
  \E t \in Threads :
    /\ PastGetCachedFilter(t)
    /\ pc[t] = "exec"
    /\ Populated
    /\ cached_filter_md_ptensor_ # NoMd
    /\ cached_filter_md_ptensor_ # WeightsDescOf(loc[t].s)
    /\ loc[t].filter_data.kind = "op"

\* C3: once CacheFilter has filled the cache, no step of any call changes
\* the cached buffer or the stored descriptor.
C3_CacheWrittenOnce ==
  [][Populated =>
       /\ cached_filter_data_ptensor_' = cached_filter_data_ptensor_
       /\ cached_filter_md_ptensor_' = cached_filter_md_ptensor_]_vars

\* a call that started after the cache was filled, with another descriptor,
\* is through the cache functions, and the cache is as it was filled
C3_Witness ==
  \E t \in Threads :
    /\ Populated
    /\ PastGetCachedFilter(t)
    /\ loc[t].conv_fwd > cached_filter_data_ptensor_.buf
    /\ cached_filter_data_ptensor_.fmt = cached_filter_md_ptensor_
    /\ cached_filter_md_ptensor_ # NoMd
    /\ cached_filter_md_ptensor_ # WeightsDescOf(loc[t].s)

\* C4: calls with equal descriptors get the same primitive, and the
\* primitive of a descriptor is built once.  A primitive is identified by
\* its position in the history of builds.
C4_PrimitiveBuiltOnce ==
  \A i, j \in DOMAIN built : built[i] = built[j] => i = j

\* the positions of a call inside the shared sections of IsFilterCacheEmpty
\* and GetCachedFilter, and inside the exclusive section of CacheFilter
InSharedSection(t) == pc[t] \in {"ie_read", "gc_read"}
InExclusiveSection(t) ==
  pc[t] \in {"cf_check", "cf_reorder", "cf_alloc_data", "cf_alloc_md",
             "cf_copy"}

\* C17: the cached buffer and the stored descriptor are read with the lock
\* held in shared mode and written with it held in exclusive mode: a call
\* inside IsFilterCacheEmpty or GetCachedFilter is a reader of mu_, a call
\* inside CacheFilter is its writer, no reader is inside while a writer is,
\* and at most one writer is inside.
C17_CacheAccessUnderLock ==
  /\ \A t \in Threads :
       /\ InSharedSection(t) => (t \in mu_.readers /\ mu_.writer = NoThread)
       /\ InExclusiveSection(t) => (mu_.writer = t /\ mu_.readers = {})
  /\ \A t, u \in Threads :
       InExclusiveSection(t) /\ t # u
         => ~InExclusiveSection(u) /\ ~InSharedSection(u)

\* one call is storing the converted filter while another waits for the lock
C17_Witness ==
  \E t, u \in Threads :
    /\ t # u
    /\ pc[t] = "cf_copy"
    /\ mu_.writer = t
    /\ pc[u] \in {"cf_lock", "gc_lock"}

\* C19: the second look at the cache, the conversion and the store of the
\* buffer and of the descriptor are made by one holder of the exclusive
\* lock without releasing it: a call converts only when it found the cache
\* empty under that lock, and a call that finds it filled leaves without
\* converting or writing.
C19_RecheckInsideExclusiveSection ==
  \A t \in Threads :
    /\ pc[t] \in {"cf_reorder", "cf_alloc_data"}
         => /\ mu_.writer = t
            /\ cached_filter_data_ptensor_ = EmptyTensor
            /\ cached_filter_md_ptensor_ = NoMd
    /\ pc[t] = "cf_reorder" => conversions = 0
    /\ pc[t] \in {"cf_alloc_md", "cf_copy"}
         => /\ mu_.writer = t
            /\ cached_filter_data_ptensor_.buf = loc[t].conv_fwd
            /\ ~Populated

\* a call that saw the cache empty under the shared lock is inside
\* CacheFilter after another call filled the cache
C19_Witness ==
  \E t \in Threads :
    /\ pc[t] = "cf_check"
    /\ mu_.writer = t
    /\ Populated
    /\ conversions = 1
    /\ cached_filter_data_ptensor_.buf # loc[t].conv_fwd

\* C25: on a kernel whose filter is not declared constant no call enters
\* IsFilterCacheEmpty, CacheFilter or GetCachedFilter, the cache stays empty
\* and the lock untouched, and a call whose primitive wants another layout
\* executes with its own reorder of the filter
C25_NoCacheWithoutConstFilter ==
  ~is_filter_const_ =>
    /\ cached_filter_data_ptensor_ = EmptyTensor
    /\ cached_filter_md_ptensor_ = NoMd
    /\ mu_ = [writer |-> NoThread, readers |-> {}]
    /\ conversions = 0
    /\ \A t \in Threads :
         /\ pc[t] \in {"idle", "reorder", "exec", "catch"}
         /\ (pc[t] = "exec" /\ FilterMd # WeightsDescOf(loc[t].s))
              => loc[t].filter_data =
                   OpMemData(loc[t].conv_fwd, WeightsDescOf(loc[t].s))

\* the filter is not constant and every thread is about to execute with
\* its own reorder
C25_Witness ==
  /\ ~is_filter_const_
  /\ ncalls = NumThreads
  /\ \A t \in Threads :
       /\ pc[t] = "exec"
       /\ FilterMd # WeightsDescOf(loc[t].s)
       /\ loc[t].filter_data.kind = "op"

\* C26: whenever no thread holds the lock exclusively the cache is empty
\* (no buffer, no descriptor) or complete (buffer written and descriptor
\* stored), also after a CacheFilter in which the reorder or an allocation
\* failed
C26_CacheEmptyOrComplete ==
  mu_.writer = NoThread =>
    \/ /\ cached_filter_data_ptensor_ = EmptyTensor
       /\ cached_filter_md_ptensor_ = NoMd
    \/ /\ Populated
       /\ cached_filter_md_ptensor_ # NoMd

\* C29: every primitive a call created with new is deleted when the call
\* has returned: the primitives alive belong to calls that are running
C29_NoPrimitiveLeftBehind ==
  live_prims \subseteq {loc[t].conv_fwd : t \in {u \in Threads : pc[u] # "idle"}}

\* the steps of the call of thread t
ThreadStep(t) ==
  \/ ComputeBegin(t)
  \/ IsFilterCacheEmptyLock(t)
  \/ IsFilterCacheEmptyRead(t)
  \/ CacheFilterLock(t)
  \/ CacheFilterCheck(t)
  \/ CacheFilterReorder(t)
  \/ AllocatePersistentData(t)
  \/ AllocatePersistentMd(t)
  \/ CacheFilterCopy(t)
  \/ GetCachedFilterLock(t)
  \/ GetCachedFilterRead(t)
  \/ FreshReorder(t)
  \/ ExecuteAndDelete(t)
  \/ CatchError(t)

\* a thread inside a call (it is not between calls)
Running(t) == pc[t] # "idle"

\* fair scheduling: a thread whose call can take a step, and a thread that
\* waits for a lock that is free again and again, eventually goes on
Fairness == \A t \in Threads : SF_vars(Running(t) /\ ThreadStep(t))
SpecLive == Init /\ [][Next]_vars /\ Fairness

\* C27: under fair scheduling every thread that started a Compute call
\* eventually finishes it
C27_EveryCallFinishes ==
  \A t \in Threads : Running(t) ~> ~Running(t)


(***************************************************************************)
(* One Compute call, step by step, of a kernel whose construction          *)
(* succeeded: MklConvOp::Compute (convolution, depthwise and fused         *)
(* kernels), MklFusedMatMulOp::Compute and MklFusedMatMulGradOp::Compute.  *)
(* Shapes are reduced to three sizes: the batch, an inner size (the        *)
(* spatial size of a convolution with one input channel, k of a matmul)    *)
(* and the number of output channels.                                      *)
(***************************************************************************)
\* largest size of a dimension of an input
MaxDim == 1

Dims == 0..MaxDim
ConvKinds == {"Conv", "DepthwiseConv", "FusedConv", "FusedDepthwise"}
DepthwiseKinds == {"DepthwiseConv", "FusedDepthwise"}

\* attributes of the kernels a call is made on
CallAttrs ==
  {a \in FusedAttrs : a.num_args = ImpliedArgs(a.fused_ops) /\ ~a.transpose_a}
    \cup {[ValidAttrs2D EXCEPT !.fused_ops = <<"BiasAddGrad">>]}
CallKernelsFor(a) ==
  {k \in (IF a.fused_ops = <<>>
          THEN {MklConvOpCtor(a, "Conv", FALSE, FALSE),
                MklConvOpCtor(a, "DepthwiseConv", FALSE, FALSE)}
          ELSE {MklFusedConvOpCtor(a), MklFusedDepthwiseConvOpCtor(a),
                MklFusedMatMulOpCtor(a, a.fused_ops[1] = "BiasAdd"),
                MklFusedMatMulGradOpCtor(a, a.fused_ops[1] = "BiasAddGrad")}) :
     k.status = "OK"}

\* what the fused matmul checks of its inputs besides the sizes: the rank of
\* src, weight and bias, the dimension of weight that must equal k (inner),
\* the length of the bias, and whether the weight comes in MKL layout
Ranks == {1, 2}
MatMulShapes ==
  [weight_is_mkl : BOOLEAN, src_rank : Ranks, weight_rank : Ranks,
   bias_rank : Ranks, weight_k : Dims, bias_len : Dims]
\* the shapes of [batch, inner] * [inner, channel] + [channel]
ValidMatMulShapes(inner, channel) ==
  [weight_is_mkl |-> FALSE, src_rank |-> 2, weight_rank |-> 2,
   bias_rank |-> 1, weight_k |-> inner, bias_len |-> channel]

\* the shape checks without the comparison of the bias length
MatMulShapeError_NoBiasLength(i) ==
  IF i.matmul.weight_is_mkl THEN "InvalidArgument"
  ELSE IF i.matmul.src_rank # 2 THEN "InvalidArgument"
  ELSE IF i.matmul.weight_rank # 2 THEN "InvalidArgument"
  ELSE IF i.matmul.bias_rank # 1 THEN "InvalidArgument"
  ELSE IF i.inner # i.matmul.weight_k THEN "InvalidArgument"
  ELSE "OK"

\* the OP_REQUIRES of MklFusedMatMulOp::Compute on its inputs, in order
MatMulShapeError(i) ==
  IF i.matmul.weight_is_mkl THEN "InvalidArgument"
  ELSE IF i.matmul.src_rank # 2 THEN "InvalidArgument"
  ELSE IF i.matmul.weight_rank # 2 THEN "InvalidArgument"
  ELSE IF i.matmul.bias_rank # 1 THEN "InvalidArgument"
  ELSE IF i.inner # i.matmul.weight_k THEN "InvalidArgument"
  ELSE IF i.matmul.bias_len # i.channel THEN "InvalidArgument"
  ELSE "OK"

\* the inputs of a call: the sizes, whether the shape checks pass, whether
\* the summand can be forwarded to the output, and whether the weights and
\* the source are laid out as the primitive wants them
CallInputs ==
  [batch : Dims, inner : Dims, channel : Dims, shape_ok : BOOLEAN,
   forwardable : BOOLEAN, reorder_needed : BOOLEAN, src_reorder : BOOLEAN,
   matmul : MatMulShapes]

\* src_tf_shape.num_elements() and dst_tf_shape.num_elements() of a
\* convolution
SrcElems(i) == i.batch * i.inner
DstElems(i) == i.batch * i.inner * i.channel

\* OpKernelContext: the status is the first error reported
Status == IF reports = <<>> THEN "OK" ELSE reports[1]
Report(err) == reports' = Append(reports, err)
Did(what) == events' = Append(events, what)
GoTo(position) == cpc' = position
Allocate(index, elems) ==
  outputs' = [i \in DOMAIN outputs \cup {index} |->
                IF i = index THEN elems ELSE outputs[i]]

is_conv2d == Len(attrs.strides) = 4

\* the steps of Compute that lie inside its try block, with the Execute of
\* the matmul left outside
InTry_ExecuteOutside(kind, step) ==
  IF kind = "FusedMatMul" THEN step \in {"src_reorder", "filter"}
  ELSE TRUE

\* the steps of Compute that lie inside its try block
InTry(kind, step) ==
  IF kind = "FusedMatMul" THEN step \in {"src_reorder", "filter", "exec"}
  ELSE TRUE

\* the backend throws mkldnn::error in a step: control goes to the catch
\* when the step is inside the try, and out of Compute otherwise
Raise(step, what) ==
  /\ Did(what)
  /\ IF InTry(kernel.kind, step)
     THEN GoTo("catch") /\ UNCHANGED escaped
     ELSE GoTo("done") /\ escaped' = TRUE
  /\ UNCHANGED <<inp, reports, outputs>>

call_frame == <<cache_vars, exec_vars, ctor_vars, race_vars, pad_vars>>

(***************************************************************************)
(* MklConvOp::Compute                                                      *)
(***************************************************************************)
\* the shapes are checked and the sizes computed
\* (GetConvFwdSizesInMklOrder); Compute returns when that reported an error
ConvGetSizes ==
  /\ kernel.kind \in ConvKinds /\ cpc = "start"
  /\ IF inp.shape_ok
     THEN GoTo("zero_check") /\ UNCHANGED reports
     ELSE Report("InvalidArgument") /\ GoTo("done")
  /\ UNCHANGED <<inp, outputs, events, escaped>>
  /\ UNCHANGED call_frame

\* the corner case of an output with no element or a batch of zero: the
\* output is allocated with the shape of the source and Compute returns
ConvZeroSize ==
  /\ kernel.kind \in ConvKinds /\ cpc = "zero_check"
  /\ IF DstElems(inp) = 0 \/ inp.batch = 0
     THEN Allocate(0, SrcElems(inp)) /\ GoTo("done")
     ELSE GoTo("checks") /\ UNCHANGED outputs
  /\ UNCHANGED <<inp, reports, events, escaped>>
  /\ UNCHANGED call_frame

\* padding fusion and depthwise convolution are for 2D only
ConvChecks ==
  /\ kernel.kind \in ConvKinds /\ cpc = "checks"
  /\ IF ~is_conv2d /\ (kernel.fuse_pad_ \/ kernel.kind \in DepthwiseKinds)
     THEN Report("InvalidArgument") /\ GoTo("done")
     ELSE GoTo("build") /\ UNCHANGED reports
  /\ UNCHANGED <<inp, outputs, events, escaped>>
  /\ UNCHANGED call_frame

\* new MklConvFwdPrimitive: the backend builds the primitive from the
\* descriptor, or rejects the descriptor
ConvNewPrimitive ==
  /\ kernel.kind \in ConvKinds /\ cpc = "build"
  /\ \/ /\ Did("new_primitive") /\ GoTo("alloc")
        /\ UNCHANGED <<inp, reports, outputs, escaped>>
     \/ Raise("build", "throw_build")
  /\ UNCHANGED call_frame

\* AllocateOutputTensor: with a fused Add the summand is forwarded to the
\* output, or the output is allocated and the summand copied into it
ConvAllocateOutput_NoCopy ==
  /\ kernel.kind \in ConvKinds /\ cpc = "alloc"
  /\ \/ /\ Allocate(0, DstElems(inp))
        /\ IF kernel.fuse_add_ /\ inp.forwardable
           THEN Did("forward")
           ELSE UNCHANGED events
        /\ GoTo("filter")
        /\ UNCHANGED <<inp, reports, escaped>>
     \/ /\ kernel.fuse_add_ /\ ~inp.forwardable
        /\ Allocate(0, DstElems(inp))
        /\ Did("throw_reorder") /\ GoTo("catch")
        /\ UNCHANGED <<inp, reports, escaped>>
  /\ UNCHANGED call_frame

ConvAllocateOutput ==
  /\ kernel.kind \in ConvKinds /\ cpc = "alloc"
  /\ \/ /\ Allocate(0, DstElems(inp))
        /\ IF kernel.fuse_add_
           THEN Did(IF inp.forwardable THEN "forward" ELSE "copy")
           ELSE UNCHANGED events
        /\ GoTo("filter")
        /\ UNCHANGED <<inp, reports, escaped>>
     \/ /\ kernel.fuse_add_ /\ ~inp.forwardable
        /\ Allocate(0, DstElems(inp))
        /\ Did("throw_reorder") /\ GoTo("catch")
        /\ UNCHANGED <<inp, reports, escaped>>
  /\ UNCHANGED call_frame

\* the weights: used as they are, taken from the filter cache, or reordered
\* for this call
ConvFilter ==
  /\ kernel.kind \in ConvKinds /\ cpc = "filter"
  /\ \/ /\ ~inp.reorder_needed
        /\ GoTo("exec") /\ UNCHANGED events
        /\ UNCHANGED <<inp, reports, outputs, escaped>>
     \/ /\ inp.reorder_needed
        /\ \E how \in {"cache_lookup", "reorder"} : Did(how)
        /\ GoTo("exec")
        /\ UNCHANGED <<inp, reports, outputs, escaped>>
     \/ /\ inp.reorder_needed
        /\ Raise("filter", "throw_reorder")
  /\ UNCHANGED call_frame

\* conv_fwd->Execute
ConvExecute ==
  /\ kernel.kind \in ConvKinds /\ cpc = "exec"
  /\ \/ /\ Did("execute") /\ GoTo("done")
        /\ UNCHANGED <<inp, reports, outputs, escaped>>
     \/ Raise("exec", "throw_exec")
  /\ UNCHANGED call_frame

\* catch (mkldnn::error& e): the call is reported as aborted
CatchBackendError ==
  /\ cpc = "catch"
  /\ Report("Aborted") /\ GoTo("done")
  /\ UNCHANGED <<inp, outputs, events, escaped>>
  /\ UNCHANGED call_frame

(***************************************************************************)
(* MklFusedMatMulOp::Compute                                               *)
(***************************************************************************)
\* the OP_REQUIRES on the shapes of src, weight and bias
MatMulValidate ==
  /\ kernel.kind = "FusedMatMul" /\ cpc = "start"
  /\ IF MatMulShapeError(inp) = "OK"
     THEN GoTo("extend") /\ UNCHANGED reports
     ELSE Report(MatMulShapeError(inp)) /\ GoTo("done")
  /\ UNCHANGED <<inp, outputs, events, escaped>>
  /\ UNCHANGED call_frame

\* ExtendMklDnnMatMulFwdParams: an unknown second fused op is reported from
\* inside the helper, and Compute goes on
ExtendMklDnnMatMulFwdParams ==
  /\ kernel.kind = "FusedMatMul" /\ cpc = "extend"
  /\ IF Len(attrs.fused_ops) = 2
        /\ attrs.fused_ops[2] \notin {"Relu", "Relu6", "Elu", "Gelu"}
     THEN Report("InvalidArgument")
     ELSE UNCHANGED reports
  /\ GoTo("get")
  /\ UNCHANGED <<inp, outputs, events, escaped>>
  /\ UNCHANGED call_frame

\* MklDnnMatMulFwdPrimitiveFactory::Get: the primitive is fetched or built,
\* or the backend rejects the descriptor
MatMulGetPrimitive ==
  /\ kernel.kind = "FusedMatMul" /\ cpc = "get"
  /\ \/ /\ Did("factory_get") /\ GoTo("alloc")
        /\ UNCHANGED <<inp, reports, outputs, escaped>>
     \/ Raise("get", "throw_build")
  /\ UNCHANGED call_frame

\* the output of batch x channel elements is allocated
MatMulAllocateOutput ==
  /\ kernel.kind = "FusedMatMul" /\ cpc = "alloc"
  /\ Allocate(0, inp.batch * inp.channel)
  /\ GoTo("zero_check")
  /\ UNCHANGED <<inp, reports, events, escaped>>
  /\ UNCHANGED call_frame

\* if there's nothing to compute, just return
MatMulZeroSize ==
  /\ kernel.kind = "FusedMatMul" /\ cpc = "zero_check"
  /\ IF inp.batch = 0 \/ inp.channel = 0
     THEN GoTo("done")
     ELSE GoTo("src_reorder")
  /\ UNCHANGED <<inp, reports, outputs, events, escaped>>
  /\ UNCHANGED call_frame

\* the source is reordered if the primitive wants another layout
MatMulSrcReorder ==
  /\ kernel.kind = "FusedMatMul" /\ cpc = "src_reorder"
  /\ \/ /\ IF inp.src_reorder THEN Did("reorder_src") ELSE UNCHANGED events
        /\ GoTo("filter")
        /\ UNCHANGED <<inp, reports, outputs, escaped>>
     \/ /\ inp.src_reorder
        /\ Raise("src_reorder", "throw_reorder")
  /\ UNCHANGED call_frame

\* the weights: used as they are, taken from the weight cache, or reordered
MatMulWeight ==
  /\ kernel.kind = "FusedMatMul" /\ cpc = "filter"
  /\ \/ /\ ~inp.reorder_needed
        /\ GoTo("exec") /\ UNCHANGED events
        /\ UNCHANGED <<inp, reports, outputs, escaped>>
     \/ /\ inp.reorder_needed
        /\ \E how \in {"cache_lookup", "reorder"} : Did(how)
        /\ GoTo("exec")
        /\ UNCHANGED <<inp, reports, outputs, escaped>>
     \/ /\ inp.reorder_needed
        /\ Raise("filter", "throw_reorder")
  /\ UNCHANGED call_frame

\* matmul_prim->Execute
MatMulExecute ==
  /\ kernel.kind = "FusedMatMul" /\ cpc = "exec"
  /\ \/ /\ Did("execute") /\ GoTo("done")
        /\ UNCHANGED <<inp, reports, outputs, escaped>>
     \/ Raise("exec", "throw_exec")
  /\ UNCHANGED call_frame

(***************************************************************************)
(* MklFusedMatMulGradOp::Compute                                           *)
(***************************************************************************)
\* the batch of src must be the batch of diff_dst
GradValidate ==
  /\ kernel.kind = "FusedMatMulGrad" /\ cpc = "start"
  /\ IF inp.shape_ok
     THEN GoTo("zero_check") /\ UNCHANGED reports
     ELSE Report("InvalidArgument") /\ GoTo("done")
  /\ UNCHANGED <<inp, outputs, events, escaped>>
  /\ UNCHANGED call_frame

\* batch == 0 || channel == 0: Compute returns
GradZeroSize ==
  /\ kernel.kind = "FusedMatMulGrad" /\ cpc = "zero_check"
  /\ IF inp.batch = 0 \/ inp.channel = 0
     THEN GoTo("done")
     ELSE GoTo("get")
  /\ UNCHANGED <<inp, reports, outputs, events, escaped>>
  /\ UNCHANGED call_frame

\* MklDnnMatMulBwdFilterPrimitiveFactory::Get
GradGetPrimitive ==
  /\ kernel.kind = "FusedMatMulGrad" /\ cpc = "get"
  /\ \/ /\ Did("factory_get") /\ GoTo("alloc")
        /\ UNCHANGED <<inp, reports, outputs, escaped>>
     \/ Raise("get", "throw_build")
  /\ UNCHANGED call_frame

\* output 0 is the gradient of the weights, output 1 that of the bias
GradAllocateOutputs ==
  /\ kernel.kind = "FusedMatMulGrad" /\ cpc = "alloc"
  /\ outputs' = [i \in {0, 1} |->
                   IF i = 0 THEN inp.inner * inp.channel ELSE inp.channel]
  /\ GoTo("src_reorder")
  /\ UNCHANGED <<inp, reports, events, escaped>>
  /\ UNCHANGED call_frame

GradSrcReorder ==
  /\ kernel.kind = "FusedMatMulGrad" /\ cpc = "src_reorder"
  /\ \/ /\ IF inp.src_reorder THEN Did("reorder_src") ELSE UNCHANGED events
        /\ GoTo("filter")
        /\ UNCHANGED <<inp, reports, outputs, escaped>>
     \/ /\ inp.src_reorder
        /\ Raise("src_reorder", "throw_reorder")
  /\ UNCHANGED call_frame

GradDiffDstReorder ==
  /\ kernel.kind = "FusedMatMulGrad" /\ cpc = "filter"
  /\ \/ /\ IF inp.reorder_needed THEN Did("reorder") ELSE UNCHANGED events
        /\ GoTo("exec")
        /\ UNCHANGED <<inp, reports, outputs, escaped>>
     \/ /\ inp.reorder_needed
        /\ Raise("filter", "throw_reorder")
  /\ UNCHANGED call_frame

GradExecute ==
  /\ kernel.kind = "FusedMatMulGrad" /\ cpc = "exec"
  /\ \/ /\ Did("execute") /\ GoTo("done")
        /\ UNCHANGED <<inp, reports, outputs, escaped>>
     \/ Raise("exec", "throw_exec")
  /\ UNCHANGED call_frame

InitCall ==
  /\ CacheIdle /\ ExecIdle /\ RaceIdle /\ PadIdle
  /\ attrs \in CallAttrs
  /\ kernel \in CallKernelsFor(attrs)
  /\ cpc = "start"
  /\ inp \in CallInputs
  /\ IF kernel.kind = "FusedMatMul"
     THEN inp.shape_ok = (MatMulShapeError(inp) = "OK")
     ELSE inp.matmul = ValidMatMulShapes(inp.inner, inp.channel)
  /\ reports = <<>>
  /\ outputs = <<>>
  /\ events = <<>>
  /\ escaped = FALSE

NextCall ==
  \/ ConvGetSizes \/ ConvZeroSize \/ ConvChecks \/ ConvNewPrimitive
  \/ ConvAllocateOutput \/ ConvFilter \/ ConvExecute \/ CatchBackendError
  \/ MatMulValidate \/ ExtendMklDnnMatMulFwdParams \/ MatMulGetPrimitive
  \/ MatMulAllocateOutput \/ MatMulZeroSize \/ MatMulSrcReorder
  \/ MatMulWeight \/ MatMulExecute
  \/ GradValidate \/ GradZeroSize \/ GradGetPrimitive \/ GradAllocateOutputs
  \/ GradSrcReorder \/ GradDiffDstReorder \/ GradExecute

SpecCall == InitCall /\ [][NextCall]_vars

\* what a finished call did
Finished == cpc = "done"
Happened(what) == \E i \in 1..Len(events) : events[i] = what
DeclaredOutputs == IF kernel.kind = "FusedMatMulGrad" THEN {0, 1} ELSE {0}
ZeroSized ==
  IF kernel.kind \in ConvKinds THEN DstElems(inp) = 0 \/ inp.batch = 0
  ELSE inp.batch = 0 \/ inp.channel = 0

(***************************************************************************)
(* Claims about one Compute call                                           *)
(***************************************************************************)
\* C11: when the computed output has no element or the batch is zero, the
\* convolution kernels and the fused matmul kernel return without having
\* constructed or fetched a primitive and without having executed one
C11_ZeroSizeSkipsPrimitive ==
  (kernel.kind \in ConvKinds \cup {"FusedMatMul"} /\ inp.shape_ok /\ ZeroSized)
    => /\ ~Happened("new_primitive")
       /\ ~Happened("factory_get")
       /\ ~Happened("execute")

\* C12: a convolution Compute that returns in the zero-sized case has
\* reported no error and has allocated an output of zero elements,
\* whatever the input shape that led there
C12_ZeroSizeOutputEmpty ==
  (kernel.kind \in ConvKinds /\ Finished /\ inp.shape_ok /\ ZeroSized)
    => /\ Status = "OK"
       /\ 0 \in DOMAIN outputs
       /\ outputs[0] = 0

\* C13: a Compute call that has returned has allocated every declared
\* output of its operator or has reported a failure
C13_OutputsOrFailure ==
  (Finished /\ ~escaped)
    => \/ Status # "OK"
       \/ DeclaredOutputs \subseteq DOMAIN outputs

\* C14: an exception the backend throws while a primitive or a reorder
\* executes does not leave Compute: the call ends having reported Aborted,
\* with a failure status
C14_BackendErrorCaught ==
  (Happened("throw_exec") \/ Happened("throw_reorder"))
    => /\ ~escaped
       /\ Finished => (Status # "OK"
                       /\ \E i \in 1..Len(reports) : reports[i] = "Aborted")

C14_Witness ==
  /\ Finished /\ Happened("throw_exec") /\ kernel.kind = "FusedMatMul"
  /\ Status = "Aborted"

\* C15: when the backend rejects the descriptor while the primitive of a
\* convolution or fused matmul kernel is built, nothing is executed and the
\* call ends with a failure status
C15_BuildRejectedIsFatal ==
  (kernel.kind \in ConvKinds \cup {"FusedMatMul"} /\ Happened("throw_build"))
    => /\ ~Happened("execute")
       /\ ~escaped
       /\ Finished => Status # "OK"

UnsupportedPostOp ==
  /\ Len(attrs.fused_ops) = 2
  /\ attrs.fused_ops[2] \notin {"Relu", "Relu6", "Elu", "Gelu"}

\* C21: a Compute call of a fused matmul kernel whose second fused op is
\* not Relu, Relu6, Elu or Gelu fetches or builds no primitive, looks up or
\* fills no weight cache and executes nothing
C21_UnsupportedPostOpFailsFast ==
  (kernel.kind = "FusedMatMul" /\ UnsupportedPostOp)
    => /\ ~Happened("factory_get")
       /\ ~Happened("cache_lookup")
       /\ ~Happened("execute")

\* C28: a Compute call that has returned, on a kernel with 5 strides that
\* fuses the padding or is depthwise, has reported InvalidArgument and has
\* built no primitive, whatever the input shape
C28_Not2DRejected ==
  ( /\ kernel.kind \in ConvKinds
    /\ ~is_conv2d
    /\ (kernel.fuse_pad_ \/ kernel.kind \in DepthwiseKinds)
    /\ Finished )
    => /\ Status = "InvalidArgument"
       /\ ~Happened("new_primitive")

\* the conditions C24 lists
BadMatMulShapes(i) ==
  \/ i.matmul.src_rank # 2
  \/ i.matmul.weight_rank # 2
  \/ i.matmul.bias_rank # 1
  \/ i.inner # i.matmul.weight_k
  \/ i.matmul.bias_len # i.channel

\* C24: when the source or the weight of a fused matmul is not a matrix,
\* the bias is not a vector, the inner dimensions differ or the bias length
\* is not the channel count, Compute reports InvalidArgument and returns:
\* it fetches no primitive, allocates no output and executes nothing
C24_BadMatMulShapesRejected ==
  (kernel.kind = "FusedMatMul" /\ BadMatMulShapes(inp))
    => /\ cpc \in {"start", "done"}
       /\ Finished => reports = <<"InvalidArgument">>
       /\ events = <<>>
       /\ outputs = <<>>
       /\ ~escaped

\* a fused matmul call with matrices of matching inner dimension and a bias
\* vector of the wrong length has returned
C24_Witness ==
  /\ kernel.kind = "FusedMatMul" /\ Finished
  /\ ~inp.matmul.weight_is_mkl
  /\ inp.matmul.src_rank = 2 /\ inp.matmul.weight_rank = 2
  /\ inp.matmul.bias_rank = 1 /\ inp.inner = inp.matmul.weight_k
  /\ inp.matmul.bias_len # inp.channel
  /\ Status = "InvalidArgument"

(***************************************************************************)
(* Concurrent Compute calls on one kernel instance, as far as they touch   *)
(* the members fuse_add_src_ and fuse_add_dst_ and the primitive handle.   *)
(* A primitive is identified by the number of the call that built it.      *)
(* The convolution builds its primitive with new in every call; the fused  *)
(* matmul asks MklDnnMatMulFwdPrimitiveFactory, a cache shared by the      *)
(* callers that maps a descriptor to the primitive built for it.           *)
(***************************************************************************)
Handles == 1..MaxCalls
NoHandle == 0
NoMemory == 0
NoRaceLocals == [call |-> 0, handle |-> NoHandle, copied |-> <<>>]

RaceAttrs ==
  {a \in CallAttrs :
     /\ a.strides = ValidAttrs2D.strides
     /\ a.dilations = ValidAttrs2D.dilations
     /\ a.fused_ops \in {<<>>, <<"BiasAdd">>, <<"BiasAdd", "Add">>}}

race_frame == <<cache_vars, exec_vars, ctor_vars, call_vars, pad_vars>>

\* MklConvOp::Compute up to AllocateOutputTensor: conv_fwd = new ..., and
\* with a fused Add either the summand is forwarded to the output or the
\* output is allocated and the summand has to be copied
ConvComputeBegin(t) ==
  /\ ~race_fault
  /\ kernel.kind \in ConvKinds
  /\ rpc[t] = "idle"
  /\ rcalls < MaxCalls
  /\ rcalls' = rcalls + 1
  /\ rloc' = [rloc EXCEPT ![t] = [call |-> rcalls + 1,
                                  handle |-> rcalls + 1,
                                  copied |-> <<>>]]
  /\ \E forwarded \in BOOLEAN :
       rpc' = [rpc EXCEPT ![t] = IF kernel.fuse_add_ /\ ~forwarded
                                 THEN "set_src" ELSE "bind"]
  /\ UNCHANGED <<fuse_add_src_, fuse_add_dst_, pool, in_execute, race_fault>>
  /\ UNCHANGED race_frame

\* GetOrCreate of the primitive cache: the primitive stored for the
\* descriptor, or a new one that is stored
GetOrCreate(d) ==
  IF pool[d] # NoHandle THEN [handle |-> pool[d], pool |-> pool]
  ELSE [handle |-> rcalls + 1, pool |-> [pool EXCEPT ![d] = rcalls + 1]]

\* MklFusedMatMulOp::Compute up to Execute: the primitive comes from the
\* factory
MatMulComputeBegin(t) ==
  /\ ~race_fault
  /\ kernel.kind = "FusedMatMul"
  /\ rpc[t] = "idle"
  /\ rcalls < MaxCalls
  /\ rcalls' = rcalls + 1
  /\ \E d \in Shapes :
       /\ rloc' = [rloc EXCEPT ![t] = [call |-> rcalls + 1,
                                       handle |-> GetOrCreate(d).handle,
                                       copied |-> <<>>]]
       /\ pool' = GetOrCreate(d).pool
  /\ rpc' = [rpc EXCEPT ![t] = "bind"]
  /\ UNCHANGED <<fuse_add_src_, fuse_add_dst_, in_execute, race_fault>>
  /\ UNCHANGED race_frame

\* fuse_add_src_.reset(new memory(add_md, cpu_engine_, add_buf)): the member
\* now wraps the summand of this call; no lock is held
SetFuseAddSrc(t) ==
  /\ ~race_fault
  /\ rpc[t] = "set_src"
  /\ fuse_add_src_' = rloc[t].call
  /\ rpc' = [rpc EXCEPT ![t] = "set_dst"]
  /\ UNCHANGED <<rloc, fuse_add_dst_, pool, in_execute, rcalls, race_fault>>
  /\ UNCHANGED race_frame

\* fuse_add_dst_.reset(new memory(dst_md, cpu_engine_, dst_buf))
SetFuseAddDst(t) ==
  /\ ~race_fault
  /\ rpc[t] = "set_dst"
  /\ fuse_add_dst_' = rloc[t].call
  /\ rpc' = [rpc EXCEPT ![t] = "copy"]
  /\ UNCHANGED <<rloc, fuse_add_src_, pool, in_execute, rcalls, race_fault>>
  /\ UNCHANGED race_frame

\* another call is about to reset one of the two members
MemberWriterBeside(t) ==
  \E u \in Threads \ {t} : rpc[u] \in {"set_src", "set_dst"}

\* CreateAndExecuteReorder(reorder_desc, *fuse_add_src_, *fuse_add_dst_):
\* the members are read without a lock and the copy goes from and to what
\* they hold at that moment.  A reset by another call at the same time is a
\* data race on the shared_ptr, and the memory object being read may be
\* freed under the reader.
CopySummand(t) ==
  /\ ~race_fault
  /\ rpc[t] = "copy"
  /\ \/ /\ rloc' = [rloc EXCEPT ![t].copied =
                      <<fuse_add_src_, fuse_add_dst_>>]
        /\ rpc' = [rpc EXCEPT ![t] = "bind"]
        /\ UNCHANGED race_fault
     \/ /\ MemberWriterBeside(t)
        /\ race_fault' = TRUE
        /\ UNCHANGED <<rloc, rpc>>
  /\ UNCHANGED <<fuse_add_src_, fuse_add_dst_, pool, in_execute, rcalls>>
  /\ UNCHANGED race_frame

\* Execute, first part: the data handles of the primitive are set to the
\* buffers of this call
ExecuteBind(t) ==
  /\ ~race_fault
  /\ rpc[t] = "bind"
  /\ in_execute' = [in_execute EXCEPT ![rloc[t].handle] = @ \cup {t}]
  /\ rpc' = [rpc EXCEPT ![t] = "run"]
  /\ UNCHANGED <<rloc, fuse_add_src_, fuse_add_dst_, pool, rcalls, race_fault>>
  /\ UNCHANGED race_frame

\* Execute, second part: the primitive runs on the stream and the data
\* handles are set back to DummyData; Compute returns
ExecuteRunAndReset(t) ==
  /\ ~race_fault
  /\ rpc[t] = "run"
  /\ in_execute' = [in_execute EXCEPT ![rloc[t].handle] = @ \ {t}]
  /\ rloc' = [rloc EXCEPT ![t] = NoRaceLocals]
  /\ rpc' = [rpc EXCEPT ![t] = "idle"]
  /\ UNCHANGED <<fuse_add_src_, fuse_add_dst_, pool, rcalls, race_fault>>
  /\ UNCHANGED race_frame

InitRace ==
  /\ CacheIdle /\ ExecIdle /\ CallIdle /\ PadIdle
  /\ attrs \in RaceAttrs
  /\ kernel \in CallKernelsFor(attrs)
  /\ rpc = [t \in Threads |-> "idle"]
  /\ rloc = [t \in Threads |-> NoRaceLocals]
  /\ fuse_add_src_ = NoMemory
  /\ fuse_add_dst_ = NoMemory
  /\ pool = [d \in Shapes |-> NoHandle]
  /\ in_execute = [h \in Handles |-> {}]
  /\ rcalls = 0
  /\ race_fault = FALSE

NextRace ==
  \E t \in Threads :
    \/ ConvComputeBegin(t) \/ MatMulComputeBegin(t)
    \/ SetFuseAddSrc(t) \/ SetFuseAddDst(t) \/ CopySummand(t)
    \/ ExecuteBind(t) \/ ExecuteRunAndReset(t)

SpecRace == InitRace /\ [][NextRace]_vars

\* C16: besides the filter cache no member of the kernel is written by one
\* call while another call uses it: when a call copies its summand, the
\* members fuse_add_src_ and fuse_add_dst_ hold the buffers this call put
\* there, and no call reads a member while another one resets it
C16_NoUnlockedMemberAccess ==
  /\ ~race_fault
  /\ \A t \in Threads :
       /\ rpc[t] = "copy"
            => fuse_add_src_ = rloc[t].call /\ fuse_add_dst_ = rloc[t].call
       /\ rloc[t].copied # <<>>
            => rloc[t].copied = <<rloc[t].call, rloc[t].call>>

\* C18: between the binding of a call's buffers to a primitive and the
\* reset of its slots no other call binds or executes the same primitive
C18_OneExecutionPerHandle ==
  \A h \in Handles : Cardinality(in_execute[h]) <= 1


\* ------------------------------------------------------------------------
\* Explicit padding of one Compute call: the scan of padding_list_ and
\* PadWithConvFusion (SpecPad)
\* ------------------------------------------------------------------------

\* largest pad amount drawn for an entry of the attribute or of the input
MaxPad == 1
\* longest padding attribute and longest flattened padding input drawn
MaxPadLen == 8

PadValues == 0..MaxPad
ZeroLists == {[k \in 1..n |-> 0] : n \in {0, MaxPadLen}}
\* values of data_format_ that FormatFromString yields
TensorFormats == {"NHWC", "NCHW", "NCHW_VECT_C"}

\* the padding input of the call: its number of dimensions and its elements
\* in row-major order
NoPaddingInput == [dims |-> 2, flat |-> <<>>]

NoPadLocals ==
  [pad_attr_enabled |-> FALSE, source |-> "none", reads |-> {},
   padding_left |-> <<>>, padding_right |-> <<>>, status |-> "OK",
   fault |-> FALSE]

\* the loop over padding_list_ at the start of Compute
AnyNonZero(list) == \E k \in 1..Len(list) : list[k] # 0

\* the slots (0-based) of top, bottom, left and right in the flattened list
PadSlots_SameForAllLayouts(data_format) ==
  IF data_format \in {"NHWC", "NCHW"} THEN <<2, 3, 4, 5>> ELSE <<>>
PadSlots(data_format) ==
  IF data_format = "NHWC" THEN <<2, 3, 4, 5>>
  ELSE IF data_format = "NCHW" THEN <<4, 5, 6, 7>>
  ELSE <<>>

\* an entry is a Tpadding, int32 in every registered kernel: widened to int64
\* and narrowed by static_cast<int> it keeps its value
\* paddings[i]: the element when the buffer has one there, and whatever lies
\* behind the buffer otherwise
ReadAt(paddings, i) ==
  IF i < Len(paddings) THEN {paddings[i + 1]} ELSE PadValues

PadScan ==
  /\ ppc = "scan"
  /\ LET enabled == AnyNonZero(pad_in.padding_list_)
     IN /\ pad_loc' = [pad_loc EXCEPT !.pad_attr_enabled = enabled]
        /\ ppc' = IF pad_in.fuse_pad_ \/ enabled THEN "pad" ELSE "sizes"
  /\ UNCHANGED <<pad_in, cache_vars, exec_vars, ctor_vars, call_vars,
                 race_vars>>

PadWithConvFusion ==
  /\ ppc = "pad"
  /\ ppc' = "sizes"
  /\ LET enabled == pad_loc.pad_attr_enabled
         source == IF enabled THEN "attr" ELSE "input"
         paddings == IF enabled THEN pad_in.padding_list_
                     ELSE pad_in.paddings_tf.flat
         slots == PadSlots(pad_in.data_format_)
     IN IF ~enabled /\ pad_in.paddings_tf.dims # 2
        THEN pad_loc' = [pad_loc EXCEPT !.source = source,
                                        !.status = "InvalidArgument"]
        ELSE \/ /\ slots = <<>>
                /\ pad_loc' = [pad_loc EXCEPT !.source = source,
                                 !.padding_left = <<0, 0>>,
                                 !.padding_right = <<0, 0>>]
             \/ /\ slots # <<>>
                /\ \E pad_top \in ReadAt(paddings, slots[1]),
                      pad_bottom \in ReadAt(paddings, slots[2]),
                      pad_left \in ReadAt(paddings, slots[3]),
                      pad_right \in ReadAt(paddings, slots[4]) :
                     pad_loc' = [pad_loc EXCEPT !.source = source,
                       !.reads = {slots[k] : k \in 1..4},
                       !.padding_left = <<pad_top, pad_left>>,
                       !.padding_right =
                          <<pad_bottom, pad_right>>]
             \/ /\ \E k \in 1..Len(slots) : slots[k] >= Len(paddings)
                /\ pad_loc' = [pad_loc EXCEPT !.source = source,
                                 !.reads = {slots[1]}, !.fault = TRUE]
  /\ UNCHANGED <<pad_in, cache_vars, exec_vars, ctor_vars, call_vars,
                 race_vars>>

\* a call either has its padding in the attribute, or is a call of a kernel
\* with the fused padding input whose attribute is absent or all zero
InitPad ==
  /\ CacheIdle /\ ExecIdle /\ CtorIdle /\ CallIdle /\ RaceIdle
  /\ ppc = "scan"
  /\ pad_loc = NoPadLocals
  /\ \E f \in TensorFormats, n \in 0..MaxPadLen :
       \E entries \in [1..n -> PadValues] :
         \/ \E b \in BOOLEAN :
              pad_in = [data_format_ |-> f, fuse_pad_ |-> b,
                        padding_list_ |-> entries,
                        paddings_tf |-> NoPaddingInput]
         \/ \E zeros \in ZeroLists, d \in Ranks :
              pad_in = [data_format_ |-> f, fuse_pad_ |-> TRUE,
                        padding_list_ |-> zeros,
                        paddings_tf |-> [dims |-> d, flat |-> entries]]

NextPad == PadScan \/ PadWithConvFusion

SpecPad == InitPad /\ [][NextPad]_vars

\* the buffer PadWithConvFusion read from
PaddingSource ==
  IF pad_loc.source = "attr" THEN pad_in.padding_list_
  ELSE pad_in.paddings_tf.flat

\* C22: every slot PadWithConvFusion reads lies inside the padding source it
\* reads from, the padding_list attribute or the flattened 2-dimensional
\* padding input, whatever the length of the list and the element count of
\* the input
C22_PaddingReadsInBounds ==
  \A i \in pad_loc.reads : i < Len(PaddingSource)

\* PadWithConvFusion returned without an error and its source p holds the
\* slots of the layout
PadsExtracted ==
  /\ ppc = "sizes"
  /\ pad_loc.source # "none"
  /\ pad_loc.status = "OK"
  /\ ~pad_loc.fault
  /\ C22_PaddingReadsInBounds

\* C23: with explicit padding the pads come from the slots of the flattened
\* list p that the layout names: NHWC top = p[2], bottom = p[3], left = p[4],
\* right = p[5]; NCHW top = p[4], bottom = p[5], left = p[6], right = p[7];
\* padding_left = {top, left} and padding_right = {bottom, right}; p is the
\* padding attribute when it has a non-zero entry and the padding input
\* otherwise
C23_PadsFromLayoutSlots ==
  PadsExtracted =>
    LET p == IF AnyNonZero(pad_in.padding_list_) THEN pad_in.padding_list_
             ELSE pad_in.paddings_tf.flat
    IN /\ pad_loc.source = "attr" <=> AnyNonZero(pad_in.padding_list_)
       /\ pad_in.data_format_ = "NHWC" =>
            /\ Len(p) > 5
            /\ pad_loc.padding_left = <<p[2 + 1], p[4 + 1]>>
            /\ pad_loc.padding_right = <<p[3 + 1], p[5 + 1]>>
       /\ pad_in.data_format_ = "NCHW" =>
            /\ Len(p) > 7
            /\ pad_loc.padding_left = <<p[4 + 1], p[6 + 1]>>
            /\ pad_loc.padding_right = <<p[5 + 1], p[7 + 1]>>
C23_Witness ==
  /\ PadsExtracted
  /\ pad_in.data_format_ = "NCHW"
  /\ pad_loc.source = "attr"
  /\ pad_in.padding_list_ = <<0, 0, 1, 1, 0, 1, 1, 0>>
  /\ pad_loc.padding_left = <<0, 1>>
  /\ pad_loc.padding_right = <<1, 0>>

=============================================================================
